---------------------------- MODULE Spec2Model ----------------------------
(***************************************************************************)
(* State-machine model of the RFNoC graph core of UHD                      *)
(* (host/lib/rfnoc/graph.cpp): graph construction (connect / commit /      *)
(* release), the property-propagation walk (resolve_all_properties) and    *)
(* the action-delivery loop (enqueue_action), populated with the mock      *)
(* nodes of host/tests/rfnoc_graph_mock_nodes.hpp.                         *)
(***************************************************************************)
EXTENDS Integers, Sequences, FiniteSets, TLC

(***************************************************************************)
(* Bounds of the model                                                     *)
(***************************************************************************)
\* Port indices a connect call may name; the multi-port mock nodes (FIFO,
\* terminator) are built with this many ports.
Ports == {0, 1}
\* Highest number of edges the graph may hold before connect is no longer called.
MaxEdges == 2
\* Highest number of enqueue_action calls made while an earlier call has left
\* _action_handling_ongoing set.
MaxDeferred == 1
\* The other thread calls enqueue_action while the running loop has made at
\* most this many iterations.
MaxLateCall == 1
\* In the action specification commit is called while every radio's
\* rssi_resolver_count is below this.
MaxActRssiCount == 2
\* Highest value _release_count is driven to by release().
MaxRelease == 2
\* Calls are made while every radio's rssi_resolver_count is below this.
MaxRssiCount == 6

(***************************************************************************)
(* State                                                                   *)
(***************************************************************************)
VARIABLES
    nodes,            \* _graph vertices / _node_map, in add_vertex order
    edges,            \* _graph edges (graph_edge_t), in add_edge order
    parallel_edges,   \* whether the edge container stores parallel edges
    release_count,    \* _release_count
    props,            \* per node: its registered and dynamic properties
    dyn_resolvers,    \* per node: the resolvers installed by inject_edge_property
    rssi_resolver_count, \* per node: mock_radio_node_t::rssi_resolver_count
    prop_access,      \* per node: the access modes of its properties that are not RO
    pc,               \* position inside resolve_all_properties / enqueue_action
    walk,             \* locals of resolve_all_properties while it runs
    op,               \* name of the API call made last
    err,              \* how that call ended: "none" or the error it threw
    action_queue,     \* _action_queue
    action_handling_ongoing, \* _action_handling_ongoing
    iteration_count,  \* local iteration_count of the loop in enqueue_action
    action_fwd_policy, \* per node: its default action forwarding policy
    last_num_samps,   \* per node: mock_radio_node_t::last_num_samps
    drain,            \* what the enqueue_action loop started last has done
    action_mutex,     \* _action_mutex: the thread holding it (0: none), the call waiting for it
    hist              \* what the API call made last has done so far

graph_vars == <<nodes, edges, parallel_edges>>
prop_vars  == <<props, dyn_resolvers, rssi_resolver_count, prop_access>>
act_vars   == <<action_queue, action_handling_ongoing, iteration_count,
               action_fwd_policy, last_num_samps, drain, action_mutex>>
vars == <<nodes, edges, parallel_edges, release_count, props, dyn_resolvers,
          rssi_resolver_count, prop_access, pc, walk, op, err, action_queue,
          action_handling_ongoing, iteration_count, action_fwd_policy,
          last_num_samps, drain, action_mutex, hist>>

(***************************************************************************)
(* Helpers on sequences                                                    *)
(***************************************************************************)
Range(s) == {s[i] : i \in 1..Len(s)}

\* Position of the first element of s equal to x (0 if there is none).
IndexOf(s, x) ==
    IF \E i \in 1..Len(s) : s[i] = x
    THEN CHOOSE i \in 1..Len(s) : s[i] = x /\ \A j \in 1..(i - 1) : s[j] # x
    ELSE 0

\* s without its element at position i.
RemoveAt(s, i) == [j \in 1..(Len(s) - 1) |-> IF j < i THEN s[j] ELSE s[j + 1]]

(***************************************************************************)
(* Graph structure (boost adjacency list held by graph_t)                  *)
(***************************************************************************)
\* A graph_edge_t as connect() records it.
EdgeInfo(s, sp, d, dp, a) ==
    [src_blockid |-> s, src_port |-> sp, dst_blockid |-> d, dst_port |-> dp,
     property_propagation_active |-> a]

\* boost::out_edges(v, _graph) over edge list E, in insertion order.
out_edges(E, v) == SelectSeq(E, LAMBDA e : e.src_blockid = v)

\* boost::in_edges(v, _graph) over edge list E, in insertion order.
in_edges(E, v) == SelectSeq(E, LAMBDA e : e.dst_blockid = v)

\* ForwardEdgePredicate: the edges the topological sort looks at.
ForwardEdges(E) == SelectSeq(E, LAMBDA e : e.property_propagation_active)

\* BackEdgePredicate: the edges checked for consistency after the walk.
BackEdges(E) == SelectSeq(E, LAMBDA e : ~e.property_propagation_active)

\* assert_edge_new with the two reconnect branches left out.
assert_edge_new_no_reconnect_check(new_edge_info, existing_edge_info) ==
    IF existing_edge_info = new_edge_info
    THEN "none"
    ELSE IF /\ existing_edge_info.src_port = new_edge_info.src_port
            /\ existing_edge_info.src_blockid = new_edge_info.src_blockid
            /\ existing_edge_info.dst_port = new_edge_info.dst_port
            /\ existing_edge_info.dst_blockid = new_edge_info.dst_blockid
    THEN "modify_edge"
    ELSE "none"

\* assert_edge_new with the branch for a modified edge left out.
assert_edge_new_no_modify_check(new_edge_info, existing_edge_info) ==
    IF existing_edge_info = new_edge_info
    THEN "none"
    ELSE IF /\ new_edge_info.src_blockid = existing_edge_info.src_blockid
            /\ new_edge_info.src_port = existing_edge_info.src_port
    THEN "reconnect_output"
    ELSE IF /\ new_edge_info.dst_blockid = existing_edge_info.dst_blockid
            /\ new_edge_info.dst_port = existing_edge_info.dst_port
    THEN "reconnect_input"
    ELSE "none"

\* assert_edge_new: "none" when the call returns, else the error it throws.
assert_edge_new(new_edge_info, existing_edge_info) ==
    IF existing_edge_info = new_edge_info
    THEN "none"
    ELSE IF /\ existing_edge_info.src_port = new_edge_info.src_port
            /\ existing_edge_info.src_blockid = new_edge_info.src_blockid
            /\ existing_edge_info.dst_port = new_edge_info.dst_port
            /\ existing_edge_info.dst_blockid = new_edge_info.dst_blockid
    THEN "modify_edge"
    ELSE IF /\ new_edge_info.src_blockid = existing_edge_info.src_blockid
            /\ new_edge_info.src_port = existing_edge_info.src_port
    THEN "reconnect_output"
    ELSE IF /\ new_edge_info.dst_blockid = existing_edge_info.dst_blockid
            /\ new_edge_info.dst_port = existing_edge_info.dst_port
    THEN "reconnect_input"
    ELSE "none"

\* The two loops of connect() over existing edges: the first error thrown.
RECURSIVE CheckEdgeNew(_, _, _)
CheckEdgeNew(new_edge_info, existing, i) ==
    IF i > Len(existing)
    THEN "none"
    ELSE LET r == assert_edge_new(new_edge_info, existing[i])
         IN  IF r # "none" THEN r ELSE CheckEdgeNew(new_edge_info, existing, i + 1)

\* boost::topological_sort: depth-first search from every white vertex in
\* vertex order, out-edges in insertion order; a vertex is pushed to the front
\* of the result when it is finished; an edge to a gray vertex is not_a_dag.
RECURSIVE DfsVisit(_, _, _)
RECURSIVE DfsOutEdges(_, _, _, _)
DfsVisit(E, u, st) ==
    LET st1 == [st EXCEPT !.color[u] = "gray"]
        st2 == DfsOutEdges(E, u, 1, st1)
    IN  IF st2.not_a_dag
        THEN st2
        ELSE [st2 EXCEPT !.color[u] = "black", !.sorted = <<u>> \o @]

DfsOutEdges(E, u, i, st) ==
    LET oe == out_edges(E, u)
    IN  IF st.not_a_dag \/ i > Len(oe)
        THEN st
        ELSE LET v == oe[i].dst_blockid
             IN  IF st.color[v] = "white"
                 THEN DfsOutEdges(E, u, i + 1, DfsVisit(E, v, st))
                 ELSE IF st.color[v] = "gray"
                 THEN [st EXCEPT !.not_a_dag = TRUE]
                 ELSE DfsOutEdges(E, u, i + 1, st)

RECURSIVE DfsAll(_, _, _, _)
DfsAll(N, E, i, st) ==
    IF st.not_a_dag \/ i > Len(N)
    THEN st
    ELSE IF st.color[N[i]] = "white"
    THEN DfsAll(N, E, i + 1, DfsVisit(E, N[i], st))
    ELSE DfsAll(N, E, i + 1, st)

\* _get_topo_sorted_nodes that never reports a cycle.
get_topo_sorted_nodes_unchecked(N, E) ==
    LET st == DfsAll(N, ForwardEdges(E), 1,
                     [color |-> [n \in Range(N) |-> "white"],
                      sorted |-> <<>>, not_a_dag |-> FALSE])
    IN  [ok |-> TRUE, sorted |-> st.sorted]

\* _get_topo_sorted_nodes over vertex list N and edge list E:
\* [ok |-> FALSE] stands for the rfnoc_error thrown on a cycle.
get_topo_sorted_nodes(N, E) ==
    LET st == DfsAll(N, ForwardEdges(E), 1,
                     [color |-> [n \in Range(N) |-> "white"],
                      sorted |-> <<>>, not_a_dag |-> FALSE])
    IN  [ok |-> ~st.not_a_dag, sorted |-> st.sorted]

\* _add_node: a node already in _node_map is not added again.
add_node(N, new_node) == IF new_node \in Range(N) THEN N ELSE Append(N, new_node)

(***************************************************************************)
(* Mock nodes (tests/rfnoc_graph_mock_nodes.hpp)                           *)
(***************************************************************************)
MAX_DECIM == 512
DEFAULT_RATE == 1000000000
DEFAULT_DECIM == 1

\* The node class behind a unique id.
NodeKind(n) ==
    CASE n \in {"MOCK_RADIO0", "MOCK_RADIO1"} -> "radio"
      [] n = "MOCK_DDC" -> "ddc"
      [] n = "MOCK_FIFO" -> "fifo"
      [] n = "MOCK_STREAMER" -> "streamer"
      [] OTHER -> "terminator"

\* get_num_input_ports() / get_num_output_ports(): the radio and the DDC have
\* one port each way; the others are built with num_ports = |Ports|,
\* except the streamer, whose only edge property sits on port 0.
NumPorts(n) == IF NodeKind(n) \in {"radio", "ddc", "streamer"} THEN 1 ELSE Cardinality(Ports)

\* res_source_info::invert_edge
invert_edge(t) == IF t = "INPUT_EDGE" THEN "OUTPUT_EDGE" ELSE "INPUT_EDGE"

\* node_t::_has_port
has_port(n, port_type, instance) ==
    port_type \in {"INPUT_EDGE", "OUTPUT_EDGE"} /\ instance < NumPorts(n)

\* A property is named by <<source type, instance, id>>.
SAMP_RATE_IN  == <<"INPUT_EDGE", 0, "samp_rate">>
SAMP_RATE_OUT == <<"OUTPUT_EDGE", 0, "samp_rate">>
SAMP_RATE_USER == <<"USER", 0, "samp_rate">>
MASTER_CLOCK_RATE == <<"USER", 0, "master_clock_rate">>
RSSI  == <<"USER", 0, "rssi">>
DECIM == <<"USER", 0, "decim">>
ALWAYS_DIRTY == <<"FRAMEWORK", 0, "__ALWAYS_DIRTY__">>

\* dirtifier_t, the class of node_t::ALWAYS_DIRTY: its overrides of the
\* property_base_t interface.  self is the sentinel; none of them reads or
\* writes any state.
dirtifier_is_dirty_until_cleaned(self) == FALSE
dirtifier_is_dirty(self) == TRUE
dirtifier_is_valid(self) == FALSE
dirtifier_equal(self, rhs) == FALSE
dirtifier_force_dirty(self) == self
dirtifier_mark_clean(self) == self
dirtifier_forward(self, next_prop) == "type_error"
dirtifier_is_type_equal(self, other) == FALSE

\* property_t<T>::is_type_equal and property_t<T>::forward towards next_prop:
\* the sentinel holds no value of type T, so forwarding to it is a type error
\* (a property forwarded to itself keeps its value).
property_is_type_equal(self, other) == other # ALWAYS_DIRTY
property_forward(self, next_prop) ==
    IF property_is_type_equal(self, next_prop) THEN "none" ELSE "type_error"

NewProp(v) == [val |-> v, dirty |-> TRUE]

\* The properties a node registers in its constructor, with their values.
ConstructedProps(n) ==
    CASE NodeKind(n) = "radio" ->
            (SAMP_RATE_IN :> NewProp(200000000)) @@ (SAMP_RATE_OUT :> NewProp(200000000))
            @@ (MASTER_CLOCK_RATE :> NewProp(200000000)) @@ (RSSI :> NewProp(0))
      [] NodeKind(n) = "ddc" ->
            (SAMP_RATE_IN :> NewProp(DEFAULT_RATE)) @@ (SAMP_RATE_OUT :> NewProp(DEFAULT_RATE))
            @@ (DECIM :> NewProp(DEFAULT_DECIM))
      [] NodeKind(n) = "streamer" ->
            (SAMP_RATE_USER :> NewProp(1000000)) @@ (SAMP_RATE_IN :> NewProp(1000000))
      [] OTHER -> << >>

\* The resolvers a node adds in its constructor, in registration order.
ConstructedResolvers(n) ==
    CASE NodeKind(n) = "radio" ->
            << [inputs |-> {SAMP_RATE_IN}, outputs |-> {SAMP_RATE_IN},
                fn |-> "radio_samp_rate_in"],
               [inputs |-> {SAMP_RATE_OUT}, outputs |-> {SAMP_RATE_OUT},
                fn |-> "radio_samp_rate_out"],
               [inputs |-> {MASTER_CLOCK_RATE},
                outputs |-> {MASTER_CLOCK_RATE, SAMP_RATE_IN, SAMP_RATE_OUT},
                fn |-> "radio_master_clock_rate"],
               [inputs |-> {ALWAYS_DIRTY}, outputs |-> {RSSI}, fn |-> "radio_rssi"] >>
      [] NodeKind(n) = "ddc" ->
            << [inputs |-> {DECIM}, outputs |-> {DECIM, SAMP_RATE_OUT}, fn |-> "ddc_decim"],
               [inputs |-> {SAMP_RATE_IN}, outputs |-> {DECIM, SAMP_RATE_OUT},
                fn |-> "ddc_samp_rate_in"],
               [inputs |-> {SAMP_RATE_OUT}, outputs |-> {DECIM, SAMP_RATE_IN},
                fn |-> "ddc_samp_rate_out"] >>
      [] NodeKind(n) = "streamer" ->
            << [inputs |-> {SAMP_RATE_USER}, outputs |-> {SAMP_RATE_IN},
                fn |-> "streamer_samp_rate_user"],
               [inputs |-> {SAMP_RATE_IN}, outputs |-> {}, fn |-> "streamer_samp_rate_in"] >>
      [] OTHER -> << >>

\* set_prop_forwarding_policy as the constructors call it (default ONE_TO_ONE).
PropFwdPolicy(n) ==
    IF NodeKind(n) \in {"streamer", "terminator"} THEN "DROP" ELSE "ONE_TO_ONE"

\* The coercion that lets every decimation above 1 through.
coerce_decim_unclamped(requested_decim) ==
    IF requested_decim <= 1 THEN 1 ELSE requested_decim

\* mock_ddc_node_t::coerce_decim
coerce_decim(requested_decim) ==
    IF requested_decim <= 1
    THEN 1
    ELSE LET even == requested_decim - (requested_decim % 2)
         IN  IF even < MAX_DECIM THEN even ELSE MAX_DECIM

(***************************************************************************)
(* Properties and local resolution (node_t)                                *)
(***************************************************************************)
\* property_t::set: the value is stored; the property turns dirty when the
\* new value differs from the old one.
SetVal(P, k, v) == [P EXCEPT ![k] = [val |-> v, dirty |-> @.dirty \/ v # @.val]]

\* register_property of a new dynamic property (a clone, dirty by default).
AddProp(P, k, v) ==
    [x \in (DOMAIN P) \cup {k} |-> IF x = k THEN NewProp(v) ELSE P[x]]

\* filter_props(is_dirty): the keys of the dirty properties of a node.
DirtyKeys(P) == {k \in DOMAIN P : P[k].dirty}

\* get_dirty_props: dirty properties whose source is not FRAMEWORK.
get_dirty_props(P) == {k \in DOMAIN P : P[k].dirty /\ k[1] # "FRAMEWORK"}

\* The body of one resolver closure, on the node's properties P and its
\* rssi_resolver_count c.
RunResolver(r, P, c) ==
    CASE r.fn = "radio_samp_rate_in" ->
            [props |-> SetVal(P, SAMP_RATE_IN, P[MASTER_CLOCK_RATE].val), count |-> c]
      [] r.fn = "radio_samp_rate_out" ->
            [props |-> SetVal(P, SAMP_RATE_OUT, P[MASTER_CLOCK_RATE].val), count |-> c]
      [] r.fn = "radio_master_clock_rate" ->
            LET mcr == IF P[MASTER_CLOCK_RATE].val > 150000000
                       THEN 200000000 ELSE 100000000
                P1  == SetVal(P, MASTER_CLOCK_RATE, mcr)
                P2  == SetVal(P1, SAMP_RATE_IN, mcr)
            IN  [props |-> SetVal(P2, SAMP_RATE_OUT, mcr), count |-> c]
      [] r.fn = "radio_rssi" ->
            [props |-> SetVal(P, RSSI, c + 1), count |-> c + 1]
      [] r.fn = "ddc_decim" ->
            LET P1 == SetVal(P, DECIM, coerce_decim(P[DECIM].val))
            IN  [props |-> SetVal(P1, SAMP_RATE_OUT, P1[SAMP_RATE_IN].val \div P1[DECIM].val),
                 count |-> c]
      [] r.fn = "ddc_samp_rate_in" ->
            LET P1 == SetVal(P, DECIM,
                          coerce_decim(P[SAMP_RATE_IN].val \div P[SAMP_RATE_OUT].val))
            IN  [props |-> SetVal(P1, SAMP_RATE_OUT, P1[SAMP_RATE_IN].val \div P1[DECIM].val),
                 count |-> c]
      [] r.fn = "ddc_samp_rate_out" ->
            LET P1 == SetVal(P, DECIM,
                          coerce_decim(P[SAMP_RATE_IN].val \div P[SAMP_RATE_OUT].val))
            IN  [props |-> SetVal(P1, SAMP_RATE_IN, P1[SAMP_RATE_OUT].val * P1[DECIM].val),
                 count |-> c]
      [] r.fn = "streamer_samp_rate_user" ->
            [props |-> SetVal(P, SAMP_RATE_IN, P[SAMP_RATE_USER].val), count |-> c]
      [] r.fn = "streamer_samp_rate_in" ->
            [props |-> P, count |-> c]
      [] r.fn = "forward" ->
            [props |-> SetVal(P, r.dst, P[r.src].val), count |-> c]

\* The resolver loop of resolve_props / init_props: resolver i runs when one
\* of its inputs is in the dirty set D (ALWAYS_DIRTY is always dirty).  runs
\* is the number of resolvers that ran.
RECURSIVE RunResolvers(_, _, _, _, _)
RunResolvers(R, i, D, P, c) ==
    IF i > Len(R)
    THEN [props |-> P, count |-> c, runs |-> 0]
    ELSE IF \/ (R[i].inputs \cap D) # {}
            \/ ALWAYS_DIRTY \in R[i].inputs /\ dirtifier_is_dirty(ALWAYS_DIRTY)
    THEN LET x == RunResolver(R[i], P, c)
             rest == RunResolvers(R, i + 1, D, x.props, x.count)
         IN  [rest EXCEPT !.runs = @ + 1]
    ELSE RunResolvers(R, i + 1, D, P, c)

\* Access modes of the properties of one node: a function from the keys whose
\* access is not RO to their mode.
AllRO == << >>
get_access_mode(A, k) == IF k \in DOMAIN A THEN A[k] ELSE "RO"

\* The access request that never locks an output.
request_property_access_unlocked(O, W) == [k \in O |-> "RW"]

\* node_t::_request_property_access for the outputs O of a resolver, W being
\* the outputs of the resolvers that ran before it in this resolve_props.
request_property_access(O, W) == [k \in O |-> IF k \in W THEN "RWLOCKED" ELSE "RW"]

\* The access holder that gives the access back only when the resolver returns.
scope_exit_on_return(A, failed) == IF failed THEN A ELSE AllRO

\* The access holders of resolve_props going out of scope, the resolver
\* having returned or thrown: every output is RO again.
scope_exit(A, failed) == AllRO

\* property_t::set under the access mode `mode`, old being the value held:
\* RW stores any value, RWLOCKED accepts the value held only, RO nothing.
property_set_error(mode, old, v) ==
    CASE mode = "RW" -> "none"
      [] mode = "RWLOCKED" -> IF v = old THEN "none" ELSE "resolve_error"
      [] OTHER -> "access_error"

\* The properties a resolver closure writes, in the order of its body.
WriteOrder(r) ==
    CASE r.fn = "radio_samp_rate_in" -> <<SAMP_RATE_IN>>
      [] r.fn = "radio_samp_rate_out" -> <<SAMP_RATE_OUT>>
      [] r.fn = "radio_master_clock_rate" ->
            <<MASTER_CLOCK_RATE, SAMP_RATE_IN, SAMP_RATE_OUT>>
      [] r.fn = "radio_rssi" -> <<RSSI>>
      [] r.fn = "ddc_decim" -> <<DECIM, SAMP_RATE_OUT>>
      [] r.fn = "ddc_samp_rate_in" -> <<DECIM, SAMP_RATE_OUT>>
      [] r.fn = "ddc_samp_rate_out" -> <<DECIM, SAMP_RATE_IN>>
      [] r.fn = "streamer_samp_rate_user" -> <<SAMP_RATE_IN>>
      [] r.fn = "streamer_samp_rate_in" -> << >>
      [] r.fn = "forward" -> <<r.dst>>

\* One resolver closure run under the access modes A: its writes happen in
\* order, and the first one that property_t::set refuses ends the closure with
\* that error, the writes made before it kept.
RunResolverUnder(r, A, P, c) ==
    LET x == RunResolver(r, P, c)
        order == WriteOrder(r)
        refused == {i \in 1..Len(order) :
                       property_set_error(get_access_mode(A, order[i]),
                                          P[order[i]].val, x.props[order[i]].val) # "none"}
    IN  IF refused = {}
        THEN [props |-> x.props, count |-> x.count, err |-> "none"]
        ELSE LET first == CHOOSE i \in refused : \A j \in refused : i <= j
             IN  [props |-> [k \in DOMAIN P |->
                                IF \E j \in 1..(first - 1) : order[j] = k
                                THEN x.props[k] ELSE P[k]],
                  count |-> x.count,
                  err |-> property_set_error(get_access_mode(A, order[first]),
                                             P[order[first]].val,
                                             x.props[order[first]].val)]

\* The test that lets every resolver run.
in_resolver_set_always(r, D) == TRUE

\* Whether resolver r belongs to the set of resolvers that have a property of
\* the dirty set D in their input list (ALWAYS_DIRTY is always dirty).
in_resolver_set(r, D) ==
    \/ (r.inputs \cap D) # {}
    \/ ALWAYS_DIRTY \in r.inputs /\ dirtifier_is_dirty(ALWAYS_DIRTY)

\* The resolver loop of resolve_props with its access bookkeeping: resolver i
\* runs when one of its inputs is in D; W collects the outputs of the
\* resolvers that ran; an error leaves the loop.  access is what the access
\* holders have left behind, ran the indices of the resolvers run, in order,
\* and granted the access modes each of them ran under.
RECURSIVE ResolveDirty(_, _, _, _, _, _)
ResolveDirty(R, i, D, W, P, c) ==
    IF i > Len(R)
    THEN [props |-> P, count |-> c, runs |-> 0, err |-> "none", access |-> AllRO,
          ran |-> << >>, granted |-> << >>]
    ELSE IF in_resolver_set(R[i], D)
    THEN LET A == request_property_access(R[i].outputs, W)
             x == RunResolverUnder(R[i], A, P, c)
             left == scope_exit(A, x.err # "none")
         IN  IF x.err # "none"
             THEN [props |-> x.props, count |-> x.count, runs |-> 1, err |-> x.err,
                   access |-> left, ran |-> <<i>>, granted |-> <<A>>]
             ELSE LET rest == ResolveDirty(R, i + 1, D, W \cup R[i].outputs,
                                           x.props, x.count)
                  IN  [rest EXCEPT !.runs = @ + 1, !.ran = <<i>> \o @,
                                   !.granted = <<A>> \o @,
                                   !.access = [k \in (DOMAIN left) \cup (DOMAIN @) |->
                                                  IF k \in DOMAIN @ THEN @[k] ELSE left[k]]]
    ELSE ResolveDirty(R, i + 1, D, W, P, c)

\* node_t::resolve_props: the dirty set is taken once, before any resolver runs.
resolve_props(R, P, c) == ResolveDirty(R, 1, DirtyKeys(P), {}, P, c)

\* node_t::clean_props
clean_props(P) == [k \in DOMAIN P |-> [P[k] EXCEPT !.dirty = FALSE]]

\* node_t::init_props: every resolver runs once, then all properties are clean.
init_props(n) ==
    LET x == RunResolvers(ConstructedResolvers(n), 1, DOMAIN ConstructedProps(n),
                          ConstructedProps(n), 0)
    IN  [props |-> clean_props(x.props), count |-> x.count]

(***************************************************************************)
(* Edge-property forwarding                                                *)
(***************************************************************************)
NoEdge == EdgeInfo("", 0, "", 0, FALSE)

\* The lookup that passes over back-edges.
find_neighbour_forward_only(E, origin, port_type, instance) ==
    LET ie == SelectSeq(in_edges(ForwardEdges(E), origin), LAMBDA e : e.dst_port = instance)
        oe == SelectSeq(out_edges(ForwardEdges(E), origin), LAMBDA e : e.src_port = instance)
    IN  CASE port_type = "INPUT_EDGE" ->
                IF ie = <<>>
                THEN [status |-> "none", node |-> "nullptr", edge |-> NoEdge]
                ELSE [status |-> "found", node |-> ie[1].src_blockid, edge |-> ie[1]]
          [] port_type = "OUTPUT_EDGE" ->
                IF oe = <<>>
                THEN [status |-> "none", node |-> "nullptr", edge |-> NoEdge]
                ELSE [status |-> "found", node |-> oe[1].dst_blockid, edge |-> oe[1]]
          [] OTHER -> [status |-> "invalid", node |-> "nullptr", edge |-> NoEdge]

\* The lookup that throws for a port without an edge.
find_neighbour_throwing_unconnected(E, origin, port_type, instance) ==
    LET ie == SelectSeq(in_edges(E, origin), LAMBDA e : e.dst_port = instance)
        oe == SelectSeq(out_edges(E, origin), LAMBDA e : e.src_port = instance)
    IN  CASE port_type = "INPUT_EDGE" ->
                IF ie = <<>>
                THEN [status |-> "invalid", node |-> "nullptr", edge |-> NoEdge]
                ELSE [status |-> "found", node |-> ie[1].src_blockid, edge |-> ie[1]]
          [] port_type = "OUTPUT_EDGE" ->
                IF oe = <<>>
                THEN [status |-> "invalid", node |-> "nullptr", edge |-> NoEdge]
                ELSE [status |-> "found", node |-> oe[1].dst_blockid, edge |-> oe[1]]
          [] OTHER -> [status |-> "invalid", node |-> "nullptr", edge |-> NoEdge]

\* The lookup that finds no neighbour for a port that is no edge port.
find_neighbour_lenient(E, origin, port_type, instance) ==
    LET ie == SelectSeq(in_edges(E, origin), LAMBDA e : e.dst_port = instance)
        oe == SelectSeq(out_edges(E, origin), LAMBDA e : e.src_port = instance)
    IN  CASE port_type = "INPUT_EDGE" ->
                IF ie = <<>>
                THEN [status |-> "none", node |-> "nullptr", edge |-> NoEdge]
                ELSE [status |-> "found", node |-> ie[1].src_blockid, edge |-> ie[1]]
          [] port_type = "OUTPUT_EDGE" ->
                IF oe = <<>>
                THEN [status |-> "none", node |-> "nullptr", edge |-> NoEdge]
                ELSE [status |-> "found", node |-> oe[1].dst_blockid, edge |-> oe[1]]
          [] OTHER -> [status |-> "none", node |-> "nullptr", edge |-> NoEdge]

\* graph_t::_find_neighbour: the first in-edge (out-edge) of origin whose
\* dst_port (src_port) is the port's instance; status "invalid" stands for
\* UHD_THROW_INVALID_CODE_PATH.
find_neighbour(E, origin, port_type, instance) ==
    LET ie == SelectSeq(in_edges(E, origin), LAMBDA e : e.dst_port = instance)
        oe == SelectSeq(out_edges(E, origin), LAMBDA e : e.src_port = instance)
    IN  CASE port_type = "INPUT_EDGE" ->
                IF ie = <<>>
                THEN [status |-> "none", node |-> "nullptr", edge |-> NoEdge]
                ELSE [status |-> "found", node |-> ie[1].src_blockid, edge |-> ie[1]]
          [] port_type = "OUTPUT_EDGE" ->
                IF oe = <<>>
                THEN [status |-> "none", node |-> "nullptr", edge |-> NoEdge]
                ELSE [status |-> "found", node |-> oe[1].dst_blockid, edge |-> oe[1]]
          [] OTHER -> [status |-> "invalid", node |-> "nullptr", edge |-> NoEdge]

\* node_t::inject_edge_property: node n gets the new property new_key (a
\* clone of the incoming one); under ONE_TO_ONE the property on the opposite
\* port with the same index is created as well, with a resolver copying to it.
inject_edge_property(S, n, new_key, v) ==
    LET opposite == <<invert_edge(new_key[1]), new_key[2], new_key[3]>>
        P1 == AddProp(S.props[n], new_key, v)
    IN  IF PropFwdPolicy(n) = "ONE_TO_ONE" /\ has_port(n, opposite[1], opposite[2])
        THEN [props |-> [S.props EXCEPT ![n] =
                            IF opposite \in DOMAIN P1 THEN P1 ELSE AddProp(P1, opposite, v)],
              dyn   |-> [S.dyn EXCEPT ![n] =
                            Append(@, [inputs |-> {new_key}, outputs |-> {opposite},
                                       fn |-> "forward", src |-> new_key, dst |-> opposite])]]
        ELSE [props |-> [S.props EXCEPT ![n] = P1], dyn |-> S.dyn]

\* node_t::forward_edge_property: the value v of the neighbour's property
\* incoming_key arrives on port incoming_port of node n.
forward_edge_property(S, n, incoming_port, incoming_key, v) ==
    LET local == <<invert_edge(incoming_key[1]), incoming_port, incoming_key[3]>>
        S1 == IF local \in DOMAIN S.props[n] THEN S ELSE inject_edge_property(S, n, local, v)
    IN  [S1 EXCEPT !.props[n] = SetVal(@, local, v)]

\* The test that forwards over every edge found, back-edges included.
forwards_over_any_edge(neighbour_node_info) == neighbour_node_info.status = "found"

\* The test of _forward_edge_props before it forwards a property: a
\* neighbour was found and the edge to it propagates properties.
forwards_over(neighbour_node_info) ==
    /\ neighbour_node_info.status = "found"
    /\ neighbour_node_info.edge.property_propagation_active

\* The port choice that takes the origin's own end of the edge.
neighbour_port_own_end(src_type, edge_info) ==
    IF src_type = "INPUT_EDGE" THEN edge_info.dst_port ELSE edge_info.src_port

\* const size_t neighbour_port in _forward_edge_props: the neighbour's end of
\* the edge a property of source type src_type is forwarded over.
neighbour_port(src_type, edge_info) ==
    IF src_type = "INPUT_EDGE" THEN edge_info.src_port ELSE edge_info.dst_port

\* The loop of graph_t::_forward_edge_props over the edge properties `keys`
\* of origin that are still to be forwarded.
RECURSIVE ForwardKeys(_, _, _, _)
ForwardKeys(E, origin, keys, S) ==
    IF keys = {}
    THEN S
    ELSE LET k  == CHOOSE x \in keys : TRUE
             nb == find_neighbour(E, origin, k[1], k[2])
         IN  ForwardKeys(E, origin, keys \ {k},
                 IF forwards_over(nb)
                 THEN forward_edge_property(S, nb.node, neighbour_port(k[1], nb.edge), k,
                                            S.props[origin][k].val)
                 ELSE S)

\* _forward_edge_props that forwards nothing.
forward_edge_props_skipped(E, origin, S) == S

\* graph_t::_forward_edge_props
forward_edge_props(E, origin, S) ==
    ForwardKeys(E, origin,
        {k \in DOMAIN S.props[origin] : k[1] \in {"INPUT_EDGE", "OUTPUT_EDGE"}}, S)

(***************************************************************************)
(* Checks after the walk                                                   *)
(***************************************************************************)
\* _find_dirty_nodes that finds no node.
find_dirty_nodes_none(N, P) == <<>>

\* _find_dirty_nodes that also counts the nodes with a resolver on ALWAYS_DIRTY.
find_dirty_nodes_with_sentinel(N, P) ==
    SelectSeq(N, LAMBDA n : \/ get_dirty_props(P[n]) # {}
                            \/ \E i \in 1..Len(ConstructedResolvers(n)) :
                                  ALWAYS_DIRTY \in ConstructedResolvers(n)[i].inputs)

\* graph_t::_find_dirty_nodes: the vertices with a dirty property, in vertex order.
find_dirty_nodes(N, P) == SelectSeq(N, LAMBDA n : get_dirty_props(P[n]) # {})

\* graph_t::_assert_edge_props_consistent: "ok", "mismatch" (returns false)
\* or "out_of_range" (dst_prop_map.at throws for an id the destination lacks).
assert_edge_props_consistent(edge_info, P) ==
    LET src_ids == {k[3] : k \in {x \in DOMAIN P[edge_info.src_blockid] :
                        x[1] = "OUTPUT_EDGE" /\ x[2] = edge_info.src_port}}
        dst_ids == {k[3] : k \in {x \in DOMAIN P[edge_info.dst_blockid] :
                        x[1] = "INPUT_EDGE" /\ x[2] = edge_info.dst_port}}
        src_val(id) == P[edge_info.src_blockid][<<"OUTPUT_EDGE", edge_info.src_port, id>>].val
        dst_val(id) == P[edge_info.dst_blockid][<<"INPUT_EDGE", edge_info.dst_port, id>>].val
    IN  IF ~(src_ids \subseteq dst_ids)
        THEN "out_of_range"
        ELSE IF \A id \in src_ids : src_val(id) = dst_val(id) THEN "ok" ELSE "mismatch"

\* boost::edges(_graph): vertex by vertex, each vertex's out-edges in order.
RECURSIVE EdgesInOrder(_, _, _)
EdgesInOrder(N, E, i) ==
    IF i > Len(N) THEN <<>> ELSE out_edges(E, N[i]) \o EdgesInOrder(N, E, i + 1)

\* The loop over the back-edges in resolve_all_properties:
\* back_edges_valid && _assert_edge_props_consistent(*e_it)
RECURSIVE CheckBackEdges(_, _, _, _)
CheckBackEdges(BE, i, back_edges_valid, P) ==
    IF i > Len(BE)
    THEN IF back_edges_valid THEN "none" ELSE "resolve_error"
    ELSE IF ~back_edges_valid
    THEN CheckBackEdges(BE, i + 1, FALSE, P)
    ELSE LET r == assert_edge_props_consistent(BE[i], P)
         IN  IF r = "out_of_range"
             THEN "out_of_range"
             ELSE CheckBackEdges(BE, i + 1, r = "ok", P)

\* The post-iteration sanity checks of resolve_all_properties: the error the
\* call ends with ("none" when it returns normally).
PostIterationChecks(N, E, P) ==
    IF find_dirty_nodes(N, P) # <<>>
    THEN "resolve_error"
    ELSE CheckBackEdges(BackEdges(EdgesInOrder(N, E, 1)), 1, TRUE, P)

(***************************************************************************)
(* graph_t::connect                                                        *)
(***************************************************************************)
\* connect() on the graph G = [nodes, edges]: the graph it leaves behind and
\* the error it throws ("none" when it returns).  par tells whether
\* boost::add_edge stores an edge parallel to an existing one or refuses it.
ConnectResult(G, src_node, dst_node, src_port, dst_port, prop_active, par) ==
    LET edge_info == EdgeInfo(src_node, src_port, dst_node, dst_port, prop_active)
        N1 == add_node(add_node(G.nodes, src_node), dst_node)
        conflict == CheckEdgeNew(edge_info,
                        out_edges(G.edges, src_node) \o in_edges(G.edges, dst_node), 1)
        E1 == Append(G.edges, edge_info)
    IN  IF conflict # "none"
        THEN [nodes |-> N1, edges |-> G.edges, err |-> conflict]
        ELSE IF ~par /\ \E e \in Range(G.edges) :
                            e.src_blockid = src_node /\ e.dst_blockid = dst_node
        THEN [nodes |-> N1, edges |-> G.edges, err |-> "assertion"]
        ELSE IF ~get_topo_sorted_nodes(N1, E1).ok
        THEN [nodes |-> N1, edges |-> RemoveAt(E1, Len(E1)), err |-> "graph_cycle"]
        ELSE [nodes |-> N1, edges |-> E1, err |-> "none"]

(***************************************************************************)
(* graph_t::resolve_all_properties                                         *)
(***************************************************************************)
MAX_NUM_ITERATIONS == 2

NoWalk == [sorted |-> <<>>, node_it |-> 0, initial_node |-> "",
           forward_dir |-> TRUE, num_iterations |-> 0]

\* Nothing recorded about the call made last: whether it wrote a property to
\* the value it held (same_value), the write it made and whether the call
\* before made the same write (repeated, with the properties it left in
\* props_before), every rssi_resolver_count at its entry, the resolvers it ran,
\* the visits it paid to each node, the times its cursor came back to the start
\* node moving forward, and the nodes it invoked check_topology on; discarded tells
\* whether enqueue_action has dropped an action since the last release, and
\* entry_props the properties as the call found them on entering
\* resolve_all_properties; resolver_error, ran and granted are the error, the
\* resolvers run (by index) and the access modes granted to each of them in
\* the resolve_props made last.
NoHist == [same_value |-> FALSE, cur_write |-> << >>, repeated |-> FALSE,
           props_before |-> << >>, rssi_before |-> << >>, resolver_runs |-> 0,
           visits |-> << >>, passes |-> 0, topo_checked |-> {},
           discarded |-> FALSE, entry_props |-> << >>, resolver_error |-> "none",
           ran |-> << >>, granted |-> << >>]

\* The record of a call that enters resolve_all_properties with the
\* properties P (in entry_props, those of the graph's nodes).
CallHist(h, P) ==
    [h EXCEPT !.rssi_before = rssi_resolver_count,
              !.visits = [n \in Range(nodes) |-> 0],
              !.entry_props = [n \in Range(nodes) |-> P[n]]]

\* All resolvers of node n, in registration order.
Resolvers(n, dyn) == ConstructedResolvers(n) \o dyn[n]

\* The entry of resolve_all_properties that does not look at the release counter.
ResolveEntry_ignoring_release(rc, N, E, P) ==
    IF Len(N) = 0
    THEN [pc |-> "idle", walk |-> NoWalk, err |-> "none"]
    ELSE LET initial_dirty_nodes == find_dirty_nodes(N, P)
             initial_node == IF initial_dirty_nodes = <<>>
                             THEN N[1] ELSE initial_dirty_nodes[1]
             topo == get_topo_sorted_nodes(N, E)
         IN  [pc |-> "resolve", err |-> "none",
              walk |-> [sorted |-> topo.sorted,
                        node_it |-> IndexOf(topo.sorted, initial_node),
                        initial_node |-> initial_node,
                        forward_dir |-> TRUE, num_iterations |-> 0]]

\* Entry of resolve_all_properties up to the start of the loop, with release
\* counter rc and properties P: where the call stands afterwards.
ResolveEntry(rc, N, E, P) ==
    IF Len(N) = 0 \/ rc > 0
    THEN [pc |-> "idle", walk |-> NoWalk, err |-> "none"]
    ELSE LET initial_dirty_nodes == find_dirty_nodes(N, P)
             initial_node == IF initial_dirty_nodes = <<>>
                             THEN N[1] ELSE initial_dirty_nodes[1]
             topo == get_topo_sorted_nodes(N, E)
         IN  IF ~topo.ok
             THEN [pc |-> "idle", walk |-> NoWalk, err |-> "graph_cycle"]
             ELSE [pc |-> "resolve", err |-> "none",
                   walk |-> [sorted |-> topo.sorted,
                             node_it |-> IndexOf(topo.sorted, initial_node),
                             initial_node |-> initial_node,
                             forward_dir |-> TRUE, num_iterations |-> 0]]

\* The end of the loop body counting an iteration whenever the cursor is on
\* the initial node, whatever the direction.
Advance_counting_both_directions(w) ==
    LET size == Len(w.sorted)
        at_end == w.forward_dir /\ w.node_it + 1 = size + 1
        it1  == IF w.forward_dir /\ ~at_end THEN w.node_it + 1 ELSE w.node_it
        fwd1 == w.forward_dir /\ ~at_end
        it2  == IF ~fwd1 /\ size > 1 THEN it1 - 1 ELSE it1
        fwd2 == IF fwd1 THEN TRUE ELSE IF size > 1 THEN it2 = 1 ELSE TRUE
        full == w.sorted[it2] = w.initial_node
    IN  [w EXCEPT !.node_it = it2, !.forward_dir = fwd2,
                  !.num_iterations = IF full THEN @ + 1 ELSE @]

\* The end of the loop body that starts over at the first node after the
\* last one instead of turning round.
Advance_wrapping_round(w) ==
    LET size == Len(w.sorted)
        it2  == IF w.node_it = size THEN 1 ELSE w.node_it + 1
        full == w.sorted[it2] = w.initial_node
    IN  [w EXCEPT !.node_it = it2, !.forward_dir = TRUE,
                  !.num_iterations = IF full THEN @ + 1 ELSE @]

\* The end of the loop body: the next node, the direction and the count of
\* full iterations.
Advance(w) ==
    LET size == Len(w.sorted)
        at_end == w.forward_dir /\ w.node_it + 1 = size + 1
        it1  == IF w.forward_dir /\ ~at_end THEN w.node_it + 1 ELSE w.node_it
        fwd1 == w.forward_dir /\ ~at_end
        it2  == IF ~fwd1 /\ size > 1 THEN it1 - 1 ELSE it1
        fwd2 == IF fwd1 THEN TRUE ELSE IF size > 1 THEN it2 = 1 ELSE TRUE
        full == fwd2 /\ w.sorted[it2] = w.initial_node
    IN  [w EXCEPT !.node_it = it2, !.forward_dir = fwd2,
                  !.num_iterations = IF full THEN @ + 1 ELSE @]

\* Where resolve_all_properties is after node_accessor.resolve_props: at the
\* forwarding, or out of the function when resolve_props threw (nothing
\* catches the exception).
after_resolve_props(resolver_error) ==
    IF resolver_error = "none" THEN "forward" ELSE "idle"

\* node_accessor.resolve_props(current_node)
WalkResolve ==
    /\ pc = "resolve"
    /\ LET current_node == walk.sorted[walk.node_it]
           x == resolve_props(Resolvers(current_node, dyn_resolvers),
                              props[current_node], rssi_resolver_count[current_node])
       IN  /\ props' = [props EXCEPT ![current_node] = x.props]
           /\ rssi_resolver_count' = [rssi_resolver_count EXCEPT ![current_node] = x.count]
           /\ prop_access' = [prop_access EXCEPT ![current_node] = x.access]
           /\ hist' = [hist EXCEPT !.resolver_runs = @ + x.runs,
                                   !.visits[current_node] = @ + 1,
                                   !.resolver_error = x.err,
                                   !.ran = x.ran,
                                   !.granted = x.granted]
           /\ pc' = after_resolve_props(x.err)
           /\ IF pc' = "idle"
              THEN walk' = NoWalk /\ err' = x.err
              ELSE UNCHANGED <<walk, err>>
    /\ UNCHANGED <<graph_vars, release_count, dyn_resolvers, op, act_vars>>

\* _forward_edge_props(*node_it)
WalkForward ==
    /\ pc = "forward"
    /\ LET S == forward_edge_props(edges, walk.sorted[walk.node_it],
                                   [props |-> props, dyn |-> dyn_resolvers])
       IN  props' = S.props /\ dyn_resolvers' = S.dyn
    /\ pc' = "clean"
    /\ UNCHANGED <<graph_vars, release_count, rssi_resolver_count, prop_access, walk, op,
                   err, act_vars, hist>>

\* node_accessor.clean_props(current_node), the choice of the next node and,
\* once the loop is left, the post-iteration checks.
WalkClean ==
    /\ pc = "clean"
    /\ LET current_node == walk.sorted[walk.node_it]
           P1 == [props EXCEPT ![current_node] = clean_props(@)]
           w  == Advance(walk)
       IN  /\ props' = P1
           /\ hist' = [hist EXCEPT !.passes =
                          IF w.forward_dir /\ w.sorted[w.node_it] = walk.initial_node
                          THEN @ + 1 ELSE @]
           /\ IF w.num_iterations = MAX_NUM_ITERATIONS
              THEN pc' = "idle" /\ walk' = NoWalk
                   /\ err' = PostIterationChecks(nodes, edges, P1)
              ELSE pc' = "resolve" /\ walk' = w /\ err' = err
    /\ UNCHANGED <<graph_vars, release_count, dyn_resolvers, rssi_resolver_count,
                   prop_access, op, act_vars>>

(***************************************************************************)
(* commit / release / property writes                                      *)
(***************************************************************************)
\* node_t::check_topology of node n on graph E: every connected port exists.
check_topology(E, n) ==
    /\ \A i \in 1..Len(E) : E[i].dst_blockid = n => E[i].dst_port < NumPorts(n)
    /\ \A i \in 1..Len(E) : E[i].src_blockid = n => E[i].src_port < NumPorts(n)

\* The counter taken down by every commit.
decrement_release_count_unguarded(rc) == rc - 1

\* graph_t::commit: if (_release_count) _release_count--
decrement_release_count(rc) == IF rc > 0 THEN rc - 1 ELSE rc

\* graph_t::commit
commit ==
    /\ pc = "idle"
    /\ op' = "commit"
    /\ LET rc == decrement_release_count(release_count)
           topo_ok == release_count = 0
                      \/ \A i \in 1..Len(nodes) : check_topology(edges, nodes[i])
           r == ResolveEntry(rc, nodes, edges, props)
       IN  /\ release_count' = rc
           /\ hist' = CallHist([NoHist EXCEPT !.topo_checked = IF release_count # 0
                                                               THEN Range(nodes) ELSE {},
                                              !.discarded = hist.discarded], props)
           /\ IF topo_ok
              THEN pc' = r.pc /\ walk' = r.walk /\ err' = r.err
              ELSE pc' = "idle" /\ walk' = NoWalk /\ err' = "topology"
    /\ UNCHANGED <<graph_vars, prop_vars, act_vars>>

\* graph_t::release
release ==
    /\ pc = "idle"
    /\ release_count < MaxRelease
    /\ op' = "release" /\ err' = "none"
    /\ release_count' = release_count + 1
    /\ hist' = NoHist
    /\ UNCHANGED <<graph_vars, prop_vars, pc, walk, act_vars>>

\* node_t::set_property on the user property `key` of node n: the value is
\* written, then the resolve_all callback runs resolve_all_properties.
set_property(n, key, v) ==
    /\ pc = "idle"
    /\ n \in Range(nodes) /\ key \in DOMAIN props[n] /\ key[1] = "USER"
    /\ op' = "set_property"
    /\ LET P1 == [props EXCEPT ![n] = SetVal(@, key, v)]
           r  == ResolveEntry(release_count, nodes, edges, P1)
           repeated == op = "set_property" /\ hist.cur_write = <<n, key, v>>
       IN  /\ props' = P1 /\ pc' = r.pc /\ walk' = r.walk /\ err' = r.err
           /\ hist' = CallHist([NoHist EXCEPT
                           !.same_value = (props[n][key].val = v),
                           !.cur_write = <<n, key, v>>,
                           !.repeated = repeated,
                           !.props_before = IF repeated THEN props ELSE << >>], P1)
    /\ UNCHANGED <<graph_vars, release_count, dyn_resolvers, rssi_resolver_count,
                   prop_access, act_vars>>

\* graph_t::connect as a step of the graph.
connect(src_node, dst_node, src_port, dst_port, prop_active) ==
    /\ pc = "idle"
    /\ Len(edges) < MaxEdges
    /\ op' = "connect"
    /\ LET r == ConnectResult([nodes |-> nodes, edges |-> edges], src_node, dst_node,
                              src_port, dst_port, prop_active, parallel_edges)
       IN  nodes' = r.nodes /\ edges' = r.edges /\ err' = r.err
    /\ UNCHANGED <<parallel_edges, release_count, prop_vars, pc, walk, act_vars, hist>>

(***************************************************************************)
(* Actions: node_t::receive_action and graph_t::enqueue_action             *)
(***************************************************************************)
MAX_ACTION_ITERATIONS == 200

\* set_action_forwarding_policy as the constructors call it (default ONE_TO_ONE).
ConstructedActionFwdPolicy(n) ==
    IF NodeKind(n) \in {"radio", "streamer", "terminator"} THEN "DROP" ELSE "ONE_TO_ONE"

ForwardingPolicies ==
    {"ONE_TO_ONE", "ONE_TO_FAN", "ONE_TO_ALL_IN", "ONE_TO_ALL_OUT", "ONE_TO_ALL", "DROP"}

\* register_action_handler(ACTION_KEY_STREAM_CMD, ...) in the constructors.
HasHandler(n, key) == NodeKind(n) \in {"radio", "ddc"} /\ key = "stream_cmd"

\* The ports of node n of one direction, by index.
PortsOf(n, port_type) ==
    [i \in 1..NumPorts(n) |-> [type |-> port_type, instance |-> i - 1]]

\* The policy that re-posts on the port the action came in on.
PolicyTargets_same_port(n, port, policy) ==
    IF policy = "DROP" THEN << >> ELSE << port >>

\* The ports an action arriving on `port` of node n is re-posted to when the
\* node has no handler for its key.
PolicyTargets(n, port, policy) ==
    CASE policy = "ONE_TO_ONE" ->
            IF has_port(n, invert_edge(port.type), port.instance)
            THEN << [type |-> invert_edge(port.type), instance |-> port.instance] >>
            ELSE << >>
      [] policy = "ONE_TO_FAN" -> PortsOf(n, invert_edge(port.type))
      [] policy = "ONE_TO_ALL_IN" -> PortsOf(n, "INPUT_EDGE")
      [] policy = "ONE_TO_ALL_OUT" -> PortsOf(n, "OUTPUT_EDGE")
      [] policy = "ONE_TO_ALL" -> PortsOf(n, "INPUT_EDGE") \o PortsOf(n, "OUTPUT_EDGE")
      [] OTHER -> << >>

\* dynamic_pointer_cast<stream_cmd_action_info>(action) followed by
\* UHD_ASSERT_THROW in the stream command handlers: the handler throws when
\* the action object is not a stream command.
handler_throws(action) == action.class # "stream_cmd_action_info"

\* The stream command handler of the mock radio: the new last_num_samps.
radio_stream_cmd_handler(action, lns) ==
    IF action.stream_mode = "START_CONTINUOUS" THEN lns ELSE action.num_samps

\* The handler dividing num_samps on the way upstream and multiplying on
\* the way downstream.
ddc_stream_cmd_handler_dividing_upstream(port, action, decim) ==
    [port   |-> [type |-> invert_edge(port.type), instance |-> port.instance],
     action |-> IF action.stream_mode \in {"NUM_SAMPS_AND_DONE", "NUM_SAMPS_AND_MORE"}
                THEN [action EXCEPT !.num_samps = IF port.type = "OUTPUT_EDGE"
                                                  THEN @ \div decim ELSE @ * decim]
                ELSE action]

\* The stream command handler of the mock DDC: the action it posts.
ddc_stream_cmd_handler(port, action, decim) ==
    [port   |-> [type |-> invert_edge(port.type), instance |-> port.instance],
     action |-> IF action.stream_mode \in {"NUM_SAMPS_AND_DONE", "NUM_SAMPS_AND_MORE"}
                THEN [action EXCEPT !.num_samps = IF port.type = "OUTPUT_EDGE"
                                                  THEN @ * decim ELSE @ \div decim]
                ELSE action]

\* node_t::receive_action on node n: the actions it posts, in order, the
\* node's last_num_samps afterwards, and whether the handler threw.
receive_action(n, port, action, policy, decim, lns) ==
    IF HasHandler(n, action.key)
    THEN IF handler_throws(action)
         THEN [posts |-> << >>, last_num_samps |-> lns, error |-> TRUE]
         ELSE IF NodeKind(n) = "radio"
         THEN [posts |-> << >>, last_num_samps |-> radio_stream_cmd_handler(action, lns),
               error |-> FALSE]
         ELSE [posts |-> << ddc_stream_cmd_handler(port, action, decim) >>,
               last_num_samps |-> lns, error |-> FALSE]
    ELSE LET targets == PolicyTargets(n, port, policy)
         IN  [posts |-> [i \in 1..Len(targets) |-> [port |-> targets[i], action |-> action]],
              last_num_samps |-> lns, error |-> FALSE]

\* No loop has run yet.  loops counts the loops of enqueue_action that are
\* running.
NoDrain == [pops |-> 0, enqueued |-> 0, last_seq |-> 0, deferred |-> 0, loops |-> 0,
            recipient |-> "nullptr", recipient_port |-> [type |-> "", instance |-> 0]]

\* No thread holds _action_mutex and no call waits for it.
NoLock == [owner |-> 0, waiting |-> << >>]

\* The new entry put at the front of the queue instead.
emplace_front(queue, entry) == <<entry>> \o queue

\* _action_queue.emplace_back
emplace_back(queue, entry) == Append(queue, entry)

\* The limit test letting one more iteration through.
recursion_limit_one_later(count) == count = MAX_ACTION_ITERATIONS + 1

\* The test of the loop in enqueue_action against the iteration limit.
recursion_limit_reached(count) == count = MAX_ACTION_ITERATIONS

\* The early return of enqueue_action that lets every call through.
action_propagation_always_enabled(rc) == TRUE

\* The early return of enqueue_action: actions pass only on a committed graph.
action_propagation_enabled(rc) == rc = 0

\* A flag whose test always reads "not set".
test_and_set_reading_clear(flag) == [handling_ongoing |-> FALSE, flag |-> TRUE]

\* _action_handling_ongoing.test_and_set(): the value read and the value left.
test_and_set(flag) == [handling_ongoing |-> flag, flag |-> TRUE]

\* std::lock_guard on the recursive _action_mutex: whether `thread` gets the
\* mutex at once (it is free, or the thread holds it already).
try_lock(owner, thread) == owner = 0 \/ owner = thread

\* The queue after the actions `posts` of src_node are enqueued, numbered in
\* the order of their enqueueing starting after `enqueued`.
RECURSIVE EnqueuePosts(_, _, _, _, _)
EnqueuePosts(queue, src_node, posts, i, enqueued) ==
    IF i > Len(posts)
    THEN queue
    ELSE EnqueuePosts(
            emplace_back(queue, [src_node |-> src_node, src_port |-> posts[i].port,
                                 action |-> posts[i].action, seq |-> enqueued + i]),
            src_node, posts, i + 1, enqueued)

\* graph_t::enqueue_action once `thread` holds the mutex, up to the loop's
\* entry: the flag is tested and set, the action is appended, and the call
\* returns when handling is ongoing already.
EnqueueLocked(thread, src_node, src_edge, action) ==
    LET t == test_and_set(action_handling_ongoing)
        d == IF action_queue = << >> /\ ~t.handling_ongoing THEN NoDrain ELSE drain
    IN  /\ action_handling_ongoing' = t.flag
        /\ action_queue' = emplace_back(action_queue,
                              [src_node |-> src_node, src_port |-> src_edge,
                               action |-> action, seq |-> d.enqueued + 1])
        /\ IF t.handling_ongoing
           THEN /\ drain.deferred < MaxDeferred
                /\ drain' = [drain EXCEPT !.enqueued = @ + 1, !.deferred = @ + 1]
                /\ action_mutex' = [action_mutex EXCEPT
                                       !.waiting = IF thread = 1 THEN @ ELSE << >>]
                /\ UNCHANGED <<iteration_count, pc>>
           ELSE /\ drain' = [d EXCEPT !.enqueued = @ + 1, !.loops = drain.loops + 1]
                /\ iteration_count' = 0
                /\ action_mutex' = [owner |-> thread,
                                    waiting |-> IF thread = 1 THEN action_mutex.waiting
                                                ELSE << >>]
                /\ pc' = "drain"

\* graph_t::enqueue_action called from outside a running loop, up to the
\* loop's entry.
enqueue_action(src_node, src_edge, action) ==
    /\ pc = "idle"
    /\ op' = "enqueue_action" /\ err' = "none"
    /\ IF ~action_propagation_enabled(release_count)
       THEN /\ hist' = [hist EXCEPT !.discarded = TRUE]
            /\ UNCHANGED <<action_queue, action_handling_ongoing, iteration_count, drain,
                           action_mutex, pc>>
       ELSE /\ EnqueueLocked(1, src_node, src_edge, action)
            /\ UNCHANGED hist
    /\ UNCHANGED <<graph_vars, release_count, prop_vars, walk, action_fwd_policy,
                   last_num_samps>>

\* graph_t::enqueue_action called while the loop runs by a thread that is not
\* running it (thread 1 makes the API calls of the model, threads 2 and 3
\* only post actions): the call gets as far as the lock_guard.
enqueue_action_other_thread(src_node, src_edge, action) ==
    /\ pc = "drain" /\ action_mutex.waiting = << >>
    /\ action_propagation_enabled(release_count)
    /\ LET thread == IF action_mutex.owner = 2 THEN 3 ELSE 2
       IN  IF try_lock(action_mutex.owner, thread)
           THEN /\ EnqueueLocked(thread, src_node, src_edge, action)
                /\ op' = "enqueue_action" /\ err' = "none"
           ELSE /\ action_mutex' = [action_mutex EXCEPT !.waiting =
                                        << [thread |-> thread, src_node |-> src_node,
                                            src_port |-> src_edge, action |-> action] >>]
                /\ UNCHANGED <<action_queue, action_handling_ongoing, iteration_count,
                               drain, pc, op, err>>
    /\ UNCHANGED <<graph_vars, release_count, prop_vars, walk, action_fwd_policy,
                   last_num_samps, hist>>

\* The waiting call gets the mutex once the call holding it has ended, and
\* goes on.
enqueue_action_resumed ==
    /\ pc = "idle" /\ action_mutex.waiting # << >>
    /\ try_lock(action_mutex.owner, action_mutex.waiting[1].thread)
    /\ op' = "enqueue_action" /\ err' = "none"
    /\ EnqueueLocked(action_mutex.waiting[1].thread, action_mutex.waiting[1].src_node,
                     action_mutex.waiting[1].src_port, action_mutex.waiting[1].action)
    /\ UNCHANGED <<graph_vars, release_count, prop_vars, walk, action_fwd_policy,
                   last_num_samps, hist>>

\* One iteration of the loop in enqueue_action, and the end of the call when
\* the queue is empty afterwards or an exception leaves the loop.
DrainStep ==
    /\ pc = "drain"
    /\ iteration_count' = iteration_count + 1
    /\ IF recursion_limit_reached(iteration_count)
       THEN /\ pc' = "idle" /\ err' = "recursion_limit"
            /\ drain' = [drain EXCEPT !.loops = 0]
            /\ UNCHANGED <<action_queue, action_handling_ongoing, last_num_samps>>
       ELSE LET next_action == Head(action_queue)
                popped == Tail(action_queue)
                recipient_info == find_neighbour(edges, next_action.src_node,
                                      next_action.src_port.type, next_action.src_port.instance)
                recipient_node == recipient_info.node
                recipient_port ==
                    [type |-> invert_edge(next_action.src_port.type),
                     instance |-> IF next_action.src_port.type = "INPUT_EDGE"
                                  THEN recipient_info.edge.dst_port
                                  ELSE recipient_info.edge.src_port]
                r == receive_action(recipient_node, recipient_port, next_action.action,
                                    action_fwd_policy[recipient_node],
                                    IF DECIM \in DOMAIN props[recipient_node]
                                    THEN props[recipient_node][DECIM].val ELSE 1,
                                    last_num_samps[recipient_node])
                d1 == [drain EXCEPT !.pops = @ + 1, !.last_seq = next_action.seq]
            IN  IF recipient_info.status = "invalid"
                THEN /\ pc' = "idle" /\ err' = "invalid_code_path"
                     /\ action_queue' = popped /\ drain' = [d1 EXCEPT !.loops = 0]
                     /\ UNCHANGED <<action_handling_ongoing, last_num_samps>>
                ELSE IF recipient_info.status = "none"
                THEN /\ action_queue' = popped
                     /\ drain' = [d1 EXCEPT !.recipient = "nullptr",
                                            !.loops = IF popped = <<>> THEN 0 ELSE @]
                     /\ pc' = IF popped = <<>> THEN "idle" ELSE "drain"
                     /\ action_handling_ongoing' = (popped # <<>>)
                     /\ UNCHANGED <<last_num_samps, err>>
                ELSE IF r.error
                THEN /\ pc' = "idle" /\ err' = "handler_error"
                     /\ action_queue' = popped
                     /\ drain' = [d1 EXCEPT !.recipient = recipient_node,
                                            !.recipient_port = recipient_port,
                                            !.loops = 0]
                     /\ UNCHANGED <<action_handling_ongoing, last_num_samps>>
                ELSE LET q == EnqueuePosts(popped, recipient_node, r.posts, 1, drain.enqueued)
                         nested == r.posts # << >>
                                   /\ ~test_and_set(action_handling_ongoing).handling_ongoing
                     IN  /\ action_queue' = q
                         /\ drain' = [d1 EXCEPT !.enqueued = @ + Len(r.posts),
                                                !.recipient = recipient_node,
                                                !.recipient_port = recipient_port,
                                                !.loops = IF q = <<>> THEN 0
                                                          ELSE IF nested THEN @ + 1 ELSE @]
                         /\ last_num_samps' = [last_num_samps EXCEPT
                                                  ![recipient_node] = r.last_num_samps]
                         /\ pc' = IF q = <<>> THEN "idle" ELSE "drain"
                         /\ action_handling_ongoing' = (q # <<>>)
                         /\ UNCHANGED err
    /\ action_mutex' = [action_mutex EXCEPT !.owner = IF pc' = "idle" THEN 0 ELSE @]
    /\ UNCHANGED <<graph_vars, release_count, prop_vars, walk, op, action_fwd_policy, hist>>

\* mock_radio_node_t::update_fwd_policy
update_fwd_policy(n, policy) ==
    /\ pc = "idle"
    /\ NodeKind(n) = "radio" /\ n \in Range(nodes)
    /\ op' = "update_fwd_policy" /\ err' = "none"
    /\ action_fwd_policy' = [action_fwd_policy EXCEPT ![n] = policy]
    /\ UNCHANGED <<graph_vars, release_count, prop_vars, pc, walk, action_queue,
                   action_handling_ongoing, iteration_count, last_num_samps, drain,
                   action_mutex, hist>>

(***************************************************************************)
(* Specification of graph construction: any sequence of connect calls on   *)
(* terminator nodes                                                        *)
(***************************************************************************)
\* The nodes connect calls may name, in the order they are first handed out.
TermNodes == <<"MOCK_TERMINATOR0", "MOCK_TERMINATOR1", "MOCK_TERMINATOR2">>

\* Every node object of the model.
AllNodes == Range(TermNodes) \cup
            {"MOCK_RADIO0", "MOCK_RADIO1", "MOCK_DDC", "MOCK_FIFO", "MOCK_STREAMER"}

\* The terminators are interchangeable: a call that brings new nodes into the
\* graph brings the next unused ones of TermNodes.
NextUnused(N, src_node, dst_node) ==
    LET N1 == add_node(add_node(N, src_node), dst_node)
    IN  \A i \in 1..Len(N1) : N1[i] = TermNodes[i]

\* The state of the engine once the node objects are constructed and
\* initialized (init_props), before any connect call.
InitEngine ==
    /\ release_count = 1
    /\ props = [n \in AllNodes |-> init_props(n).props]
    /\ dyn_resolvers = [n \in AllNodes |-> <<>>]
    /\ rssi_resolver_count = [n \in AllNodes |-> init_props(n).count]
    /\ prop_access = [n \in AllNodes |-> AllRO]
    /\ pc = "idle" /\ walk = NoWalk
    /\ op = "none" /\ err = "none"
    /\ action_queue = <<>> /\ action_handling_ongoing = FALSE
    /\ iteration_count = 0
    /\ action_fwd_policy = [n \in AllNodes |-> ConstructedActionFwdPolicy(n)]
    /\ last_num_samps = [n \in AllNodes |-> 0]
    /\ drain = NoDrain
    /\ action_mutex = NoLock
    /\ hist = NoHist

InitGraph ==
    /\ nodes = <<>> /\ edges = <<>>
    /\ parallel_edges \in BOOLEAN
    /\ InitEngine

\* The calls made: any ports between the first two terminators, port 0 when
\* the third one is named.
CallMade(src_node, dst_node, src_port, dst_port) ==
    TermNodes[3] \in {src_node, dst_node} => (src_port = 0 /\ dst_port = 0)

ConnectAny ==
    \E src_node \in Range(TermNodes), dst_node \in Range(TermNodes),
       src_port \in Ports, dst_port \in Ports, prop_active \in BOOLEAN :
        /\ NextUnused(nodes, src_node, dst_node)
        /\ CallMade(src_node, dst_node, src_port, dst_port)
        /\ connect(src_node, dst_node, src_port, dst_port, prop_active)

NextGraph == ConnectAny

SpecGraph == InitGraph /\ [][NextGraph]_vars

(***************************************************************************)
(* Specification of the graph's life cycle: connect calls between two      *)
(* terminators on port 0, interleaved with commit, release and the walk    *)
(***************************************************************************)
ConnectLife ==
    \E src_node \in {TermNodes[1], TermNodes[2]}, dst_node \in {TermNodes[1], TermNodes[2]},
       prop_active \in BOOLEAN :
        /\ NextUnused(nodes, src_node, dst_node)
        /\ connect(src_node, dst_node, 0, 0, prop_active)

NextLife ==
    \/ ConnectLife
    \/ commit
    \/ release
    \/ WalkResolve
    \/ WalkForward
    \/ WalkClean

SpecLife == InitGraph /\ [][NextLife]_vars

(***************************************************************************)
(* Specification of property propagation: a graph of mock nodes built by   *)
(* connect calls, then commit, release and user property writes            *)
(***************************************************************************)
\* The graph a sequence of connect calls builds from G.
RECURSIVE Build(_, _, _)
Build(G, calls, i) ==
    IF i > Len(calls)
    THEN G
    ELSE LET r == ConnectResult(G, calls[i][1], calls[i][2], calls[i][3], calls[i][4],
                                calls[i][5], TRUE)
         IN  Build([nodes |-> r.nodes, edges |-> r.edges], calls, i + 1)

\* The connect calls <<src_node, dst_node, src_port, dst_port, prop_active>>
\* of the graphs propagation runs on.
Topologies ==
    { << >>,
      << <<"MOCK_DDC", "MOCK_RADIO0", 0, 0, TRUE>>,
         <<"MOCK_RADIO0", "MOCK_STREAMER", 0, 0, TRUE>> >>,
      << <<"MOCK_RADIO0", "MOCK_DDC", 0, 0, TRUE>> >>,
      << <<"MOCK_RADIO0", "MOCK_FIFO", 0, 0, TRUE>>,
         <<"MOCK_FIFO", "MOCK_STREAMER", 0, 0, TRUE>> >>,
      << <<"MOCK_RADIO0", "MOCK_DDC", 0, 0, TRUE>>,
         <<"MOCK_DDC", "MOCK_STREAMER", 0, 0, TRUE>> >>,
      << <<"MOCK_RADIO0", "MOCK_DDC", 0, 0, TRUE>>,
         <<"MOCK_DDC", "MOCK_RADIO0", 0, 0, FALSE>> >>,
      << <<"MOCK_RADIO0", "MOCK_TERMINATOR0", 0, 0, FALSE>>,
         <<"MOCK_DDC", "MOCK_RADIO0", 0, 0, FALSE>> >>,
      << <<"MOCK_RADIO0", "MOCK_RADIO0", 0, 0, FALSE>> >>,
      << <<"MOCK_RADIO0", "MOCK_RADIO1", 0, 0, TRUE>> >>,
      << <<"MOCK_RADIO0", "MOCK_TERMINATOR0", 0, 0, TRUE>> >> }

\* The values a user writes to the USER properties of node n.
UserWrites(n) ==
    CASE NodeKind(n) = "radio" -> {<<MASTER_CLOCK_RATE, 100000000>>,
                                   <<MASTER_CLOCK_RATE, 200000000>>}
      [] NodeKind(n) = "ddc" -> {<<DECIM, 1>>, <<DECIM, 2>>, <<DECIM, 3>>}
      [] NodeKind(n) = "streamer" -> {<<SAMP_RATE_USER, 1000000>>,
                                      <<SAMP_RATE_USER, 100000000>>}
      [] OTHER -> {}

\* The resolver runs of the radios are counted; calls stop once a count
\* reaches MaxRssiCount.
CallsLeft == \A n \in Range(nodes) : rssi_resolver_count[n] < MaxRssiCount

InitProp ==
    /\ \E calls \in Topologies :
          LET G == Build([nodes |-> <<>>, edges |-> <<>>], calls, 1)
          IN  nodes = G.nodes /\ edges = G.edges
    /\ parallel_edges = TRUE
    /\ InitEngine

SetAny ==
    \E n \in Range(nodes) : \E w \in UserWrites(n) : set_property(n, w[1], w[2])

NextProp ==
    \/ CallsLeft /\ commit
    \/ CallsLeft /\ release
    \/ CallsLeft /\ SetAny
    \/ WalkResolve
    \/ WalkForward
    \/ WalkClean

SpecProp == InitProp /\ [][NextProp]_vars

(***************************************************************************)
(* Specification of the sentinel: property propagation on a graph with a   *)
(* radio, and calls on node_t::ALWAYS_DIRTY made between the graph calls   *)
(***************************************************************************)
SentinelTopologies ==
    { << <<"MOCK_RADIO0", "MOCK_DDC", 0, 0, TRUE>> >>,
      << <<"MOCK_RADIO0", "MOCK_RADIO0", 0, 0, FALSE>> >> }

InitSentinel ==
    /\ \E calls \in SentinelTopologies :
          LET G == Build([nodes |-> <<>>, edges |-> <<>>], calls, 1)
          IN  nodes = G.nodes /\ edges = G.edges
    /\ parallel_edges = TRUE
    /\ InitEngine

\* ALWAYS_DIRTY.force_dirty()
force_dirty ==
    /\ pc = "idle"
    /\ dirtifier_force_dirty(ALWAYS_DIRTY) = ALWAYS_DIRTY
    /\ op' = "force_dirty" /\ err' = "none"
    /\ UNCHANGED <<graph_vars, release_count, prop_vars, pc, walk, act_vars, hist>>

\* prop_accessor_t::mark_clean(ALWAYS_DIRTY)
mark_clean ==
    /\ pc = "idle"
    /\ dirtifier_mark_clean(ALWAYS_DIRTY) = ALWAYS_DIRTY
    /\ op' = "mark_clean" /\ err' = "none"
    /\ UNCHANGED <<graph_vars, release_count, prop_vars, pc, walk, act_vars, hist>>

\* prop_accessor_t::forward between ALWAYS_DIRTY and the property `key` of
\* node n, from the sentinel or to it.
forward(n, key, from_sentinel) ==
    /\ pc = "idle"
    /\ n \in Range(nodes) /\ key \in DOMAIN props[n]
    /\ op' = "forward"
    /\ err' = IF from_sentinel THEN dirtifier_forward(ALWAYS_DIRTY, key)
                               ELSE property_forward(key, ALWAYS_DIRTY)
    /\ UNCHANGED <<graph_vars, release_count, prop_vars, pc, walk, act_vars, hist>>

ForwardAny ==
    \E n \in Range(nodes) : \E key \in DOMAIN props[n], from_sentinel \in BOOLEAN :
        forward(n, key, from_sentinel)

NextSentinel ==
    \/ CallsLeft /\ commit
    \/ CallsLeft /\ release
    \/ CallsLeft /\ SetAny
    \/ force_dirty
    \/ mark_clean
    \/ ForwardAny
    \/ WalkResolve
    \/ WalkForward
    \/ WalkClean

SpecSentinel == InitSentinel /\ [][NextSentinel]_vars

(***************************************************************************)
(* Specification of resolver errors: two radios in a row, with clock rates *)
(* written that the radio's resolver coerces                               *)
(***************************************************************************)
LockTopologies ==
    { << <<"MOCK_RADIO0", "MOCK_RADIO1", 0, 0, TRUE>> >>,
      << <<"MOCK_RADIO0", "MOCK_DDC", 0, 0, TRUE>> >> }

\* The values a user writes: a clock rate the radio keeps, one it coerces to
\* 100e6, and a decimation.
LockWrites(n) ==
    CASE NodeKind(n) = "radio" -> {<<MASTER_CLOCK_RATE, 100000000>>,
                                   <<MASTER_CLOCK_RATE, 120000000>>}
      [] NodeKind(n) = "ddc" -> {<<DECIM, 2>>}
      [] OTHER -> {}

InitLock ==
    /\ \E calls \in LockTopologies :
          LET G == Build([nodes |-> <<>>, edges |-> <<>>], calls, 1)
          IN  nodes = G.nodes /\ edges = G.edges
    /\ parallel_edges = TRUE
    /\ InitEngine

SetLockAny ==
    \E n \in Range(nodes) : \E w \in LockWrites(n) : set_property(n, w[1], w[2])

NextLock ==
    \/ CallsLeft /\ commit
    \/ CallsLeft /\ release
    \/ CallsLeft /\ SetLockAny
    \/ WalkResolve
    \/ WalkForward
    \/ WalkClean

SpecLock == InitLock /\ [][NextLock]_vars

(***************************************************************************)
(* Specification of forwarding across ports with different indices         *)
(***************************************************************************)
\* The connect calls of the graphs whose edges join ports of different index
\* and reach nodes that hold no edge property of their own, over a
\* propagating edge or over a back-edge.
FwdTopologies ==
    { << <<"MOCK_RADIO0", "MOCK_FIFO", 0, 1, TRUE>>,
         <<"MOCK_FIFO", "MOCK_STREAMER", 1, 0, TRUE>> >>,
      << <<"MOCK_RADIO0", "MOCK_FIFO", 0, 1, TRUE>>,
         <<"MOCK_FIFO", "MOCK_DDC", 0, 0, TRUE>> >>,
      << <<"MOCK_RADIO0", "MOCK_TERMINATOR0", 0, 1, TRUE>> >>,
      << <<"MOCK_RADIO0", "MOCK_TERMINATOR0", 0, 1, FALSE>> >>,
      << <<"MOCK_DDC", "MOCK_FIFO", 0, 1, TRUE>>,
         <<"MOCK_FIFO", "MOCK_RADIO0", 1, 0, TRUE>> >> }

InitFwd ==
    /\ \E calls \in FwdTopologies :
          LET G == Build([nodes |-> <<>>, edges |-> <<>>], calls, 1)
          IN  nodes = G.nodes /\ edges = G.edges
    /\ parallel_edges = TRUE
    /\ InitEngine

NextFwd ==
    \/ CallsLeft /\ commit
    \/ CallsLeft /\ release
    \/ CallsLeft /\ SetAny
    \/ WalkResolve
    \/ WalkForward
    \/ WalkClean

SpecFwd == InitFwd /\ [][NextFwd]_vars

(***************************************************************************)
(* Specification of commits on a graph whose topology a node rejects: a    *)
(* radio connected on an input port it does not have, next to a valid pair *)
(***************************************************************************)
TopoTopologies ==
    { << <<"MOCK_RADIO0", "MOCK_RADIO1", 0, 1, TRUE>> >>,
      << <<"MOCK_RADIO0", "MOCK_RADIO1", 0, 0, TRUE>> >> }

InitTopo ==
    /\ \E calls \in TopoTopologies :
          LET G == Build([nodes |-> <<>>, edges |-> <<>>], calls, 1)
          IN  nodes = G.nodes /\ edges = G.edges
    /\ parallel_edges = TRUE
    /\ InitEngine

NextTopo ==
    \/ CallsLeft /\ commit
    \/ CallsLeft /\ release
    \/ CallsLeft /\ SetAny
    \/ WalkResolve
    \/ WalkForward
    \/ WalkClean

SpecTopo == InitTopo /\ [][NextTopo]_vars

(***************************************************************************)
(* Specification of action delivery: a graph of mock nodes built by        *)
(* connect calls, then commit, release, policy updates and posted actions  *)
(***************************************************************************)
ActionTopologies ==
    { << <<"MOCK_RADIO0", "MOCK_DDC", 0, 0, TRUE>>,
         <<"MOCK_DDC", "MOCK_STREAMER", 0, 0, TRUE>> >>,
      << <<"MOCK_RADIO0", "MOCK_FIFO", 0, 0, TRUE>>,
         <<"MOCK_FIFO", "MOCK_STREAMER", 1, 0, TRUE>> >>,
      << <<"MOCK_FIFO", "MOCK_FIFO", 0, 0, FALSE>> >>,
      << <<"MOCK_RADIO0", "MOCK_RADIO0", 0, 0, FALSE>> >> }

\* The actions posted: stream commands, an action with the stream command
\* key that is no stream_cmd_action_info object, and an action of another key.
PostedActions ==
    { [key |-> "stream_cmd", class |-> "stream_cmd_action_info",
       stream_mode |-> "START_CONTINUOUS", num_samps |-> 0],
      [key |-> "stream_cmd", class |-> "stream_cmd_action_info",
       stream_mode |-> "NUM_SAMPS_AND_DONE", num_samps |-> 1000],
      [key |-> "stream_cmd", class |-> "action_info", stream_mode |-> "", num_samps |-> 0],
      [key |-> "other", class |-> "action_info", stream_mode |-> "", num_samps |-> 0] }

InitAct ==
    /\ \E calls \in ActionTopologies :
          LET G == Build([nodes |-> <<>>, edges |-> <<>>], calls, 1)
          IN  nodes = G.nodes /\ edges = G.edges
    /\ parallel_edges = TRUE
    /\ InitEngine

PostAny ==
    \E src_node \in Range(nodes), port_type \in {"INPUT_EDGE", "OUTPUT_EDGE", "USER"},
       instance \in Ports, action \in PostedActions :
        /\ IF port_type = "USER"
           THEN instance = 0 /\ action.key = "other"
           ELSE has_port(src_node, port_type, instance)
        /\ action_handling_ongoing => (src_node = nodes[1] /\ action.key = "other")
        /\ enqueue_action(src_node, [type |-> port_type, instance |-> instance], action)

\* The thread that is not running the loop posts the action `other` on the
\* output of the first node.
PostOtherThread ==
    /\ iteration_count <= MaxLateCall
    /\ enqueue_action_other_thread(nodes[1], [type |-> "OUTPUT_EDGE", instance |-> 0],
            [key |-> "other", class |-> "action_info", stream_mode |-> "", num_samps |-> 0])

\* The policies the radio is switched to.
UpdatedPolicies == {"DROP", "ONE_TO_ONE", "ONE_TO_ALL"}

UpdatePolicyAny ==
    \E n \in Range(nodes), policy \in UpdatedPolicies : update_fwd_policy(n, policy)

ActCallsLeft == \A n \in Range(nodes) : rssi_resolver_count[n] < MaxActRssiCount

NextAct ==
    \/ release_count > 0 /\ ActCallsLeft /\ commit
    \/ release
    \/ UpdatePolicyAny
    \/ PostAny
    \/ PostOtherThread
    \/ enqueue_action_resumed
    \/ DrainStep
    \/ WalkResolve
    \/ WalkForward
    \/ WalkClean

SpecAct == InitAct /\ [][NextAct]_vars

(***************************************************************************)
(* Specification of action forwarding policies: actions posted on graphs   *)
(* where a forwarding node sits between nodes with and without handlers    *)
(***************************************************************************)
PolicyTopologies ==
    { << <<"MOCK_RADIO0", "MOCK_FIFO", 0, 1, TRUE>>,
         <<"MOCK_FIFO", "MOCK_DDC", 1, 0, TRUE>> >>,
      << <<"MOCK_RADIO0", "MOCK_FIFO", 0, 0, TRUE>>,
         <<"MOCK_FIFO", "MOCK_RADIO1", 0, 0, TRUE>> >> }

InitPolicy ==
    /\ \E calls \in PolicyTopologies :
          LET G == Build([nodes |-> <<>>, edges |-> <<>>], calls, 1)
          IN  nodes = G.nodes /\ edges = G.edges
    /\ parallel_edges = TRUE
    /\ InitEngine

NextPolicy ==
    \/ release_count > 0 /\ ActCallsLeft /\ commit
    \/ release
    \/ UpdatePolicyAny
    \/ PostAny
    \/ DrainStep
    \/ WalkResolve
    \/ WalkForward
    \/ WalkClean

SpecPolicy == InitPolicy /\ [][NextPolicy]_vars

(***************************************************************************)
(* Specification of stream commands: the chain radio -> DDC -> streamer,   *)
(* committed and released, the DDC's decimation written by the user, and   *)
(* stream commands issued by the streamer                                  *)
(***************************************************************************)
StreamChain ==
    << <<"MOCK_RADIO0", "MOCK_DDC", 0, 0, TRUE>>,
       <<"MOCK_DDC", "MOCK_STREAMER", 0, 0, TRUE>> >>

\* The decimations the user asks for and the stream commands issued.
StreamDecims == {1, 4, 5}
StreamCmds ==
    [key : {"stream_cmd"}, class : {"stream_cmd_action_info"},
     stream_mode : {"START_CONTINUOUS", "NUM_SAMPS_AND_DONE", "NUM_SAMPS_AND_MORE"},
     num_samps : {1000, 1024}]

InitStream ==
    /\ LET G == Build([nodes |-> <<>>, edges |-> <<>>], StreamChain, 1)
       IN  nodes = G.nodes /\ edges = G.edges
    /\ parallel_edges = TRUE
    /\ InitEngine

\* mock_streamer_t::issue_stream_cmd(stream_cmd, chan)
issue_stream_cmd(stream_cmd, chan) ==
    enqueue_action("MOCK_STREAMER", [type |-> "INPUT_EDGE", instance |-> chan], stream_cmd)

IssueAny == \E stream_cmd \in StreamCmds : issue_stream_cmd(stream_cmd, 0)

SetDecimAny == \E d \in StreamDecims : set_property("MOCK_DDC", DECIM, d)

NextStream ==
    \/ CallsLeft /\ commit
    \/ CallsLeft /\ release
    \/ CallsLeft /\ SetDecimAny
    \/ IssueAny
    \/ DrainStep
    \/ WalkResolve
    \/ WalkForward
    \/ WalkClean

SpecStream == InitStream /\ [][NextStream]_vars

(***************************************************************************)
(* Properties of graph construction                                        *)
(***************************************************************************)
\* The nodes reached from `frontier` over one or more edges of E.
RECURSIVE ReachableFrom(_, _, _)
ReachableFrom(E, frontier, seen) ==
    LET next == {E[i].dst_blockid : i \in {j \in 1..Len(E) : E[j].src_blockid \in frontier}}
                \ seen
    IN  IF next = {} THEN seen ELSE ReachableFrom(E, next, seen \cup next)

OnCycle(E, n) == n \in ReachableFrom(E, {n}, {})

\* C4: after any sequence of connect calls, accepted or rejected, no node
\* lies on a directed cycle (a self-loop included) of the edges whose
\* property_propagation_active is true.
C4_PropagatingSubgraphAcyclic ==
    \A n \in Range(nodes) : ~OnCycle(ForwardEdges(edges), n)

\* A call that would have closed a cycle was rejected while the graph holds
\* a propagating edge.
C4_CycleAttemptRejected ==
    op = "connect" /\ err = "graph_cycle" /\ ForwardEdges(edges) # <<>>

\* C5: a connect call that fails with the graph-cycle error leaves the node
\* set and the edge set exactly as they were before the call.
C5_CycleRejectionLeavesGraphUnchanged ==
    [][(op' = "connect" /\ err' = "graph_cycle") => (nodes' = nodes /\ edges' = edges)]_vars

\* Every output port feeds one destination port and every input port is fed
\* by one source port.
SinglePeerPerPort ==
    \A i, j \in 1..Len(edges) :
        /\ (edges[i].src_blockid = edges[j].src_blockid /\ edges[i].src_port = edges[j].src_port)
            => (edges[i].dst_blockid = edges[j].dst_blockid /\ edges[i].dst_port = edges[j].dst_port)
        /\ (edges[i].dst_blockid = edges[j].dst_blockid /\ edges[i].dst_port = edges[j].dst_port)
            => (edges[i].src_blockid = edges[j].src_blockid /\ edges[i].src_port = edges[j].src_port)

\* C6: no port ever has two different peers (a connect naming an output
\* port that already feeds another destination, or an input port already fed
\* by another source, is never recorded), and a connect rejected with the
\* reconnect error leaves the edge set as it was.
C6_ReconnectRejected ==
    /\ []SinglePeerPerPort
    /\ [][(op' = "connect" /\ err' \in {"reconnect_output", "reconnect_input"})
            => edges' = edges]_vars

\* A reconnect was rejected on a graph that holds an edge.
C6_ReconnectAttempted ==
    op = "connect" /\ err \in {"reconnect_output", "reconnect_input"} /\ edges # <<>>

\* C7: repeating a connect with the endpoints and the flag of an edge the
\* graph already holds is accepted without error and leaves the edge list
\* as it was (no second, parallel edge is recorded).
C7_IdenticalConnectIdempotent ==
    [][\A i \in 1..Len(edges) :
            connect(edges[i].src_blockid, edges[i].dst_blockid, edges[i].src_port,
                    edges[i].dst_port, edges[i].property_propagation_active)
            => (err' = "none" /\ edges' = edges)]_vars

\* C8: an edge keeps the flag its connect recorded: every step leaves the
\* recorded edges as they are, and a connect naming the four endpoints of a
\* recorded edge with the other flag is rejected as a modification.
C8_EdgeFlagImmutable ==
    /\ [][\A i \in 1..Len(edges) : i <= Len(edges') /\ edges'[i] = edges[i]]_vars
    /\ [][\A i \in 1..Len(edges) :
            connect(edges[i].src_blockid, edges[i].dst_blockid, edges[i].src_port,
                    edges[i].dst_port, ~edges[i].property_propagation_active)
            => (err' = "modify_edge" /\ edges' = edges)]_vars

\* A modification was rejected on a committed graph.
C8_ModificationRejected ==
    op = "connect" /\ err = "modify_edge" /\ release_count = 0 /\ edges # <<>>

\* C17: commit decrements the release counter; check_topology is invoked,
\* and propagation run, by exactly the commits that take the counter to zero.
C17_CommitChecksOnlyAtZero ==
    [][(pc = "idle" /\ op' = "commit")
         => /\ release_count' = IF release_count = 0 THEN 0 ELSE release_count - 1
            /\ hist'.topo_checked = IF release_count # 0 /\ release_count' = 0
                                    THEN Range(nodes) ELSE {}
            /\ pc' = "resolve" => (release_count # 0 /\ release_count' = 0)]_vars

\* C18: the release counter is never negative; release adds one, commit takes
\* one off unless the counter is zero already, and resolve_all_properties
\* walks the graph only while the counter is zero: after k releases on a
\* committed graph propagation is off until the k-th commit.
C18_ReleaseCounterBalanced ==
    /\ [](release_count >= 0)
    /\ [](pc \in {"resolve", "forward", "clean"} => release_count = 0)
    /\ [][(pc = "idle" /\ op' = "commit")
            => release_count' = IF release_count = 0 THEN 0 ELSE release_count - 1]_vars
    /\ [][(pc = "idle" /\ op' = "release") => release_count' = release_count + 1]_vars
    /\ [][(pc = "idle" /\ pc' = "resolve") => (op' = "commit" /\ release_count' = 0)]_vars

\* A commit on a graph released twice has left the counter at one: the graph
\* with its edge is still released and no walk has started.
C18_CommittedOnceAfterTwoReleases ==
    /\ pc = "idle" /\ op = "commit" /\ err = "none"
    /\ release_count = 1 /\ hist.topo_checked # {} /\ edges # << >>

(***************************************************************************)
(* Properties of property propagation                                      *)
(***************************************************************************)
\* resolve_all_properties has run to its end on a committed, non-empty graph.
ResolveEnded ==
    /\ pc = "idle" /\ op \in {"commit", "set_property"}
    /\ release_count = 0 /\ nodes # <<>> /\ err # "topology"

NoDirtyProps(P) == \A n \in Range(nodes) : get_dirty_props(P[n]) = {}

\* C1: when resolve_all_properties returns without error on a committed,
\* non-empty graph, no property whose source is not FRAMEWORK is dirty; and
\* when such a property is still dirty as the walk ends, the call ends with
\* the resolve error.
C1_NoDirtyAfterResolve ==
    /\ []((ResolveEnded /\ err = "none") => NoDirtyProps(props))
    /\ [][(pc = "clean" /\ pc' = "idle" /\ ~NoDirtyProps(props'))
            => err' = "resolve_error"]_vars

\* A user write on the committed graph has been resolved without error and
\* has changed the DDC's decimation.
C1_WriteResolved ==
    /\ ResolveEnded /\ err = "none" /\ op = "set_property"
    /\ "MOCK_DDC" \in Range(nodes) /\ props["MOCK_DDC"][DECIM].val = 2

\* The ids of the edge properties both ends of edge e hold, and their values.
SharedIds(e, P) ==
    {id \in {k[3] : k \in DOMAIN P[e.src_blockid]} :
        /\ <<"OUTPUT_EDGE", e.src_port, id>> \in DOMAIN P[e.src_blockid]
        /\ <<"INPUT_EDGE", e.dst_port, id>> \in DOMAIN P[e.dst_blockid]}

SrcVal(e, P, id) == P[e.src_blockid][<<"OUTPUT_EDGE", e.src_port, id>>].val
DstVal(e, P, id) == P[e.dst_blockid][<<"INPUT_EDGE", e.dst_port, id>>].val

EdgesAgree(E, P) ==
    \A i \in 1..Len(E) : \A id \in SharedIds(E[i], P) :
        SrcVal(E[i], P, id) = DstVal(E[i], P, id)

\* C2: after resolve_all_properties returns without error, on every edge
\* with property_propagation_active = true each edge property present on both
\* ends has the same value on the source's output side and on the
\* destination's input side.
C2_ForwardEdgesAgree ==
    (ResolveEnded /\ err = "none") => EdgesAgree(ForwardEdges(edges), props)

\* A user write has been propagated over a propagating edge that carries a
\* shared property.
C2_WritePropagated ==
    /\ ResolveEnded /\ err = "none" /\ op = "set_property"
    /\ \E i \in 1..Len(edges) :
          /\ edges[i].property_propagation_active
          /\ SharedIds(edges[i], props) # {}
          /\ SrcVal(edges[i], props, "samp_rate") = 100000000

\* C3: with a back-edge in the graph, resolve_all_properties returns without
\* error only if every edge property shared by the two ends of every back-edge
\* has equal values, and it reports the resolve error when such a pair differs
\* after the walk.
C3_BackEdgesChecked ==
    (ResolveEnded /\ BackEdges(edges) # <<>>)
        => /\ err = "none" => EdgesAgree(BackEdges(edges), props)
           /\ ~EdgesAgree(BackEdges(edges), props) => err = "resolve_error"

\* C13: on a committed graph, a set_property call that writes the value the
\* property already holds runs no resolver on any node.
C13_SameValueRunsNoResolver ==
    (ResolveEnded /\ op = "set_property" /\ hist.same_value) => hist.resolver_runs = 0

\* C14: on a committed graph, the second of two consecutive writes of one
\* value to one user property leaves every property of every node (value and
\* dirty flag) as the first write left it.
C14_RepeatedWriteSameState ==
    (ResolveEnded /\ op = "set_property" /\ hist.repeated) => props = hist.props_before

\* C15: every call of resolve_all_properties on a committed graph runs the
\* resolver that depends on ALWAYS_DIRTY exactly twice: each radio's
\* rssi_resolver_count ends two above its value at the call's entry.
C15_AlwaysDirtyRunsTwicePerCall ==
    ResolveEnded =>
        \A n \in Range(nodes) :
            NodeKind(n) = "radio" => rssi_resolver_count[n] = hist.rssi_before[n] + 2

\* C16: the walk of resolve_all_properties ends after exactly two full passes
\* (the cursor back on the start node, moving forward), having visited every
\* node at least twice; at no moment has a node been visited more than four
\* times.
C16_WalkEndsAfterTwoPasses ==
    /\ \A n \in DOMAIN hist.visits : hist.visits[n] <= 4
    /\ hist.passes <= MAX_NUM_ITERATIONS
    /\ ResolveEnded =>
          /\ hist.passes = MAX_NUM_ITERATIONS
          /\ \A n \in Range(nodes) : hist.visits[n] >= 2

\* A walk over three nodes that started on the interior one (the DDC, written
\* by the user) has ended; the DDC was visited four times, the others twice.
C16_InteriorStartWalked ==
    /\ ResolveEnded /\ op = "set_property" /\ Len(nodes) = 3
    /\ hist.cur_write # << >> /\ hist.cur_write[1] = "MOCK_DDC"
    /\ nodes[2] = "MOCK_DDC" /\ hist.visits["MOCK_DDC"] = 4
    /\ hist.visits[nodes[1]] = 2 /\ hist.visits[nodes[3]] = 2

\* The properties P1 differ from P0 at most in the property `key` of node n.
SameButFor(P0, P1, n, key) ==
    \A m \in DOMAIN P0 :
        /\ DOMAIN P1[m] = DOMAIN P0[m]
        /\ \A k \in DOMAIN P0[m] : (m # n \/ k # key) => P1[m][k] = P0[m][k]

\* C19: while the release counter is not zero or the graph has no node, a
\* call that enters resolve_all_properties (commit, set_property) returns at
\* once: no walk starts, no resolver runs, no dynamic property or resolver
\* appears, and no property changes but the one set_property itself wrote.
C19_ResolveNoOpWhileReleased ==
    [][(pc = "idle" /\ op' \in {"commit", "set_property"}
            /\ (release_count' # 0 \/ nodes = << >>))
         => /\ pc' = "idle" /\ walk' = NoWalk
            /\ dyn_resolvers' = dyn_resolvers
            /\ rssi_resolver_count' = rssi_resolver_count
            /\ hist'.resolver_runs = 0
            /\ IF op' = "commit"
               THEN props' = props
               ELSE SameButFor(props, props', hist'.cur_write[1], hist'.cur_write[2])]_vars

\* A user property has been written to a new value while the graph was
\* released: it holds the value, dirty, and nothing else has happened.
C19_WrittenWhileReleased ==
    /\ pc = "idle" /\ op = "set_property" /\ release_count > 0
    /\ "MOCK_DDC" \in Range(nodes)
    /\ props["MOCK_DDC"][DECIM] = [val |-> 2, dirty |-> TRUE]

\* The properties node n holds on port `instance` of direction port_type.
PortProps(P, n, port_type, instance) ==
    [k \in {x \in DOMAIN P[n] : x[1] = port_type /\ x[2] = instance} |-> P[n][k]]

\* C21: properties never propagate along a back-edge: when the walk forwards
\* the edge properties of a node, the properties on the far port of every
\* back-edge of that node stay as they are: no value is copied, no property
\* is created there and no dirty flag changes.
C21_NoPropagationOverBackEdge ==
    [][pc = "forward"
         => \A i \in 1..Len(edges) :
               LET e == edges[i]
                   origin == walk.sorted[walk.node_it]
               IN  ~e.property_propagation_active
                   => /\ origin = e.src_blockid
                         => PortProps(props', e.dst_blockid, "INPUT_EDGE", e.dst_port)
                            = PortProps(props, e.dst_blockid, "INPUT_EDGE", e.dst_port)
                      /\ origin = e.dst_blockid
                         => PortProps(props', e.src_blockid, "OUTPUT_EDGE", e.src_port)
                            = PortProps(props, e.src_blockid, "OUTPUT_EDGE", e.src_port)
                      /\ (origin \in {e.src_blockid, e.dst_blockid}
                            /\ BackEdges(edges) = edges)
                         => dyn_resolvers' = dyn_resolvers]_vars

\* The radio's edge properties have been forwarded while its output is
\* connected to a terminator by a back-edge: the terminator, which registers
\* no property, still has none on that port.
C21_ForwardedAtBackEdge ==
    /\ pc = "clean" /\ walk.sorted[walk.node_it] = "MOCK_RADIO0"
    /\ \E i \in 1..Len(edges) :
          /\ ~edges[i].property_propagation_active
          /\ edges[i].src_blockid = "MOCK_RADIO0" /\ edges[i].dst_blockid = "MOCK_TERMINATOR0"
          /\ SAMP_RATE_OUT \in DOMAIN props["MOCK_RADIO0"]
          /\ PortProps(props, "MOCK_TERMINATOR0", "INPUT_EDGE", edges[i].dst_port) = << >>

\* The properties of the nodes N as their constructors and init_props leave them.
FreshProps(N) == [n \in Range(N) |-> init_props(n).props]

\* C26: in the chain radio -> FIFO -> streamer, with the radio's
\* master_clock_rate set to 100e6 and nothing else written, one commit ends
\* without error and leaves samp_rate = 100e6 on the radio's output, on the
\* FIFO's input and output (properties created by the forwarding), on the
\* streamer's input and on the streamer's user property samp_rate.
C26_RateReachesStreamerUserProperty ==
    (/\ ResolveEnded /\ op = "commit"
     /\ nodes = <<"MOCK_RADIO0", "MOCK_FIFO", "MOCK_STREAMER">>
     /\ hist.entry_props = [FreshProps(nodes) EXCEPT
                               !["MOCK_RADIO0"] = SetVal(@, MASTER_CLOCK_RATE, 100000000)])
        => /\ err = "none"
           /\ props["MOCK_RADIO0"][SAMP_RATE_OUT].val = 100000000
           /\ {SAMP_RATE_IN, SAMP_RATE_OUT} \subseteq DOMAIN props["MOCK_FIFO"]
           /\ props["MOCK_FIFO"][SAMP_RATE_IN].val = 100000000
           /\ props["MOCK_FIFO"][SAMP_RATE_OUT].val = 100000000
           /\ props["MOCK_STREAMER"][SAMP_RATE_IN].val = 100000000
           /\ props["MOCK_STREAMER"][SAMP_RATE_USER].val = 100000000

\* C27: in the committed chain radio -> DDC, whenever a propagation ends
\* without error with the radio's master_clock_rate at 200e6 (set by the
\* user), the radio's output rate and the DDC's input rate are 200e6, the
\* DDC's output rate is its input rate divided by decim, and decim is 1 or
\* an even number not above MAX_DECIM; when the DDC was as constructed on
\* entry (output rate 1e9, decim not written), decim is 1 and the output
\* rate 200e6.
C27_RadioDdcRates ==
    (/\ ResolveEnded /\ err = "none"
     /\ nodes = <<"MOCK_RADIO0", "MOCK_DDC">> /\ Len(edges) = 1
     /\ props["MOCK_RADIO0"][MASTER_CLOCK_RATE].val = 200000000)
        => LET decim == props["MOCK_DDC"][DECIM].val
           IN  /\ props["MOCK_RADIO0"][SAMP_RATE_OUT].val = 200000000
               /\ props["MOCK_DDC"][SAMP_RATE_IN].val = 200000000
               /\ props["MOCK_DDC"][SAMP_RATE_OUT].val
                    = props["MOCK_DDC"][SAMP_RATE_IN].val \div decim
               /\ decim = 1 \/ (decim % 2 = 0 /\ decim >= 2 /\ decim <= MAX_DECIM)
               /\ hist.entry_props["MOCK_DDC"] = init_props("MOCK_DDC").props
                  => (decim = 1 /\ props["MOCK_DDC"][SAMP_RATE_OUT].val = 200000000)

\* The user has set the radio's master_clock_rate from 100e6 to 200e6 on the
\* committed chain radio -> DDC and the propagation has ended without error.
C27_ClockRateRaised ==
    /\ ResolveEnded /\ err = "none" /\ op = "set_property"
    /\ nodes = <<"MOCK_RADIO0", "MOCK_DDC">> /\ Len(edges) = 1
    /\ hist.cur_write = <<"MOCK_RADIO0", MASTER_CLOCK_RATE, 200000000>>
    /\ hist.entry_props["MOCK_RADIO0"][SAMP_RATE_OUT].val = 100000000
    /\ props["MOCK_DDC"][SAMP_RATE_IN].val = 200000000

(***************************************************************************)
(* Properties of action delivery                                           *)
(***************************************************************************)
\* C9: a call of enqueue_action that starts the delivery loop pops at most
\* MAX_ACTION_ITERATIONS (200) actions off the queue, whatever is re-posted
\* meanwhile; when the queue still holds an action after the 200th pop, the
\* call ends with the recursion-limit error.
C9_DrainBounded ==
    /\ [](drain.pops <= MAX_ACTION_ITERATIONS)
    /\ [][(pc = "drain" /\ drain.pops = MAX_ACTION_ITERATIONS
                /\ iteration_count' # iteration_count)
            => (pc' = "idle" /\ err' = "recursion_limit" /\ drain'.pops = drain.pops)]_vars

\* A delivery loop has been ended by the recursion limit after 200 pops, with
\* actions left in the queue.
C9_LimitReached ==
    /\ pc = "idle" /\ op = "enqueue_action" /\ err = "recursion_limit"
    /\ drain.pops = MAX_ACTION_ITERATIONS /\ action_queue # <<>>

\* C10: within one delivery loop the actions are delivered in the order of
\* their enqueueing: no action still in the queue was enqueued before the
\* action delivered last.
C10_FifoDelivery ==
    \A i \in 1..Len(action_queue) : action_queue[i].seq > drain.last_seq

\* A delivery loop has delivered actions while two or more re-posted actions
\* wait in the queue.
C10_SeveralQueued ==
    pc = "drain" /\ Len(action_queue) >= 2 /\ drain.pops >= 2

\* C11: at most one delivery loop runs at any time.  An action posted by a
\* handler while the loop runs is appended to the queue and stays there when
\* the post returns (every action enqueued is either delivered by the loop or
\* still queued), and a call made by the other thread while the loop runs
\* leaves the queue and the loop alone and goes on only once no loop runs.
C11_SingleDrainLoop ==
    /\ [](drain.loops <= 1)
    /\ [](Len(action_queue) = drain.enqueued - drain.pops)
    /\ [][(pc = "drain" /\ iteration_count' = iteration_count)
            => (action_queue' = action_queue /\ drain' = drain /\ pc' = "drain"
                /\ action_mutex'.waiting # << >>)]_vars
    /\ [][(action_mutex.waiting # << >> /\ action_mutex'.waiting = << >>)
            => (pc = "idle" /\ drain.loops = 0)]_vars

\* The loop has delivered an action whose handler posted another one, while
\* a call of the other thread waits for the mutex.
C11_CallWaitsDuringDrain ==
    /\ pc = "drain" /\ drain.loops = 1
    /\ action_mutex.waiting # << >> /\ action_mutex.owner # action_mutex.waiting[1].thread
    /\ drain.pops >= 1 /\ drain.enqueued >= 2

\* C12: when an action handler throws during the delivery loop, the loop goes
\* on with the actions still queued, or, with none left, ends as it ends
\* after the last delivery (the handling flag released).
C12_DrainSurvivesHandlerError ==
    [][(pc = "drain" /\ err' = "handler_error")
         => (pc' = "drain" \/ (action_queue' = << >> /\ ~action_handling_ongoing'))]_vars

\* C20: an enqueue_action call made while the release counter is not zero
\* leaves the action queue as it is and starts no delivery: the action is in
\* no queue from which a later commit could have it delivered.
C20_ActionDiscardedWhileReleased ==
    [][(pc = "idle" /\ op' = "enqueue_action" /\ release_count # 0
            /\ action_mutex'.waiting = action_mutex.waiting)
         => (action_queue' = action_queue /\ pc' = "idle" /\ drain' = drain
             /\ action_handling_ongoing' = action_handling_ongoing)]_vars

\* An action has been posted on a released graph that is committed by now:
\* nothing is queued and no delivery has ever been made.
C20_CommittedAfterDiscardedPost ==
    /\ pc = "idle" /\ op = "commit" /\ release_count = 0
    /\ hist.discarded /\ action_queue = << >> /\ drain = NoDrain

\* The edges of E connected to port `port` of node n.
EdgesAtPort(E, n, port) ==
    SelectSeq(E, LAMBDA e :
        \/ port.type = "OUTPUT_EDGE" /\ e.src_blockid = n /\ e.src_port = port.instance
        \/ port.type = "INPUT_EDGE" /\ e.dst_blockid = n /\ e.dst_port = port.instance)

\* An iteration of the delivery loop that pops an action is about to run.
DrainPops == pc = "drain" /\ ~recursion_limit_reached(iteration_count)

\* C22: actions traverse back-edges: the action popped by the delivery loop
\* whose port is connected by a back-edge is delivered to the node at the
\* other end of that edge, which handles it as it handles any action (the
\* radio's stream command handler stores num_samps).
C22_ActionsCrossBackEdges ==
    [][(DrainPops /\ iteration_count' # iteration_count)
         => LET a == Head(action_queue)
                at == EdgesAtPort(edges, a.src_node, a.src_port)
                far == IF a.src_port.type = "OUTPUT_EDGE"
                       THEN at[1].dst_blockid ELSE at[1].src_blockid
            IN  (at # << >> /\ ~at[1].property_propagation_active)
                => /\ drain'.recipient = far
                   /\ drain'.pops = drain.pops + 1
                   /\ err' \in {"none", "handler_error"}
                   /\ (NodeKind(far) = "radio" /\ a.action.key = "stream_cmd"
                         /\ a.action.stream_mode = "NUM_SAMPS_AND_DONE")
                      => last_num_samps'[far] = a.action.num_samps]_vars

\* A stream command posted on a port of the radio whose only edge is a
\* back-edge has been delivered to the radio.
C22_DeliveredOverBackEdge ==
    /\ pc = "idle" /\ op = "enqueue_action" /\ err = "none"
    /\ edges # << >> /\ BackEdges(edges) = edges
    /\ drain.recipient = "MOCK_RADIO0" /\ last_num_samps["MOCK_RADIO0"] = 1000

\* C23: an action posted on an input or output port that no edge is
\* connected to is lost: the loop pops it, no node receives it (nothing is
\* handled, nothing is re-posted), no error is raised, and the loop goes on
\* with the actions still queued, ending as usual when there is none.
C23_UnconnectedActionLost ==
    [][(DrainPops /\ iteration_count' # iteration_count)
         => LET a == Head(action_queue)
            IN  (a.src_port.type \in {"INPUT_EDGE", "OUTPUT_EDGE"}
                   /\ EdgesAtPort(edges, a.src_node, a.src_port) = << >>)
                => /\ err' = err /\ err' = "none"
                   /\ last_num_samps' = last_num_samps
                   /\ action_queue' = Tail(action_queue)
                   /\ drain'.enqueued = drain.enqueued
                   /\ IF Tail(action_queue) = << >>
                      THEN pc' = "idle" /\ ~action_handling_ongoing'
                      ELSE pc' = "drain"]_vars

\* An action was lost at an unconnected port while another action is still
\* queued, and the loop goes on.
C23_LostWithOthersQueued ==
    /\ pc = "drain" /\ err = "none" /\ drain.pops >= 1
    /\ drain.recipient = "nullptr" /\ action_queue # << >>

C25_StreamCmdRescaledUpstream ==
    /\ [][(DrainPops /\ iteration_count' # iteration_count)
            => LET a == Head(action_queue)
                   d == props["MOCK_DDC"][DECIM].val
                   counted == a.action.stream_mode
                                 \in {"NUM_SAMPS_AND_DONE", "NUM_SAMPS_AND_MORE"}
               IN  /\ a.src_node = "MOCK_STREAMER"
                      => /\ drain'.recipient = "MOCK_DDC" /\ pc' = "drain"
                         /\ last_num_samps' = last_num_samps
                         /\ Len(action_queue') = 1
                         /\ action_queue'[1].src_node = "MOCK_DDC"
                         /\ action_queue'[1].src_port = [type |-> "INPUT_EDGE", instance |-> 0]
                         /\ action_queue'[1].action.num_samps
                              = IF counted THEN a.action.num_samps * d
                                ELSE a.action.num_samps
                   /\ a.src_node = "MOCK_DDC"
                      => /\ drain'.recipient = "MOCK_RADIO0"
                         /\ action_queue' = << >> /\ pc' = "idle" /\ err' = "none"
                         /\ counted
                            => last_num_samps'["MOCK_RADIO0"] = a.action.num_samps]_vars
    /\ []((pc = "idle" /\ op = "enqueue_action" /\ release_count = 0)
            => (drain.pops = 2 /\ drain.enqueued = 2 /\ drain.recipient = "MOCK_RADIO0"
                /\ action_queue = << >> /\ ~action_handling_ongoing))

\* With the DDC decimating by 4, a stream command for 1024 samples has made
\* its way upstream: the radio has stored 4096.
C25_RadioGot4096 ==
    /\ pc = "idle" /\ op = "enqueue_action" /\ err = "none" /\ release_count = 0
    /\ props["MOCK_DDC"][DECIM].val = 4 /\ drain.pops = 2
    /\ last_num_samps["MOCK_RADIO0"] = 4096

\* C28: node_t::ALWAYS_DIRTY is dirty and invalid in every state, whatever
\* was called before (clean_props of a walk, force_dirty, mark_clean); it is
\* equal to no property of any node and not to itself, type-equal with none,
\* a forward from it or to it ends with a type error and changes no property,
\* and since it stays dirty every resolve_props of a radio runs the rssi
\* resolver once more.
C28_SentinelAlwaysDirty ==
    /\ [](/\ dirtifier_is_dirty(ALWAYS_DIRTY)
          /\ ~dirtifier_is_valid(ALWAYS_DIRTY)
          /\ ~dirtifier_equal(ALWAYS_DIRTY, ALWAYS_DIRTY)
          /\ ~dirtifier_is_type_equal(ALWAYS_DIRTY, ALWAYS_DIRTY)
          /\ \A n \in Range(nodes) : \A k \in DOMAIN props[n] :
                /\ ~dirtifier_equal(ALWAYS_DIRTY, k)
                /\ ~dirtifier_is_type_equal(ALWAYS_DIRTY, k)
                /\ ~property_is_type_equal(k, ALWAYS_DIRTY))
    /\ [][op' = "forward" => (err' = "type_error" /\ props' = props)]_vars
    /\ [][(pc = "resolve" /\ NodeKind(walk.sorted[walk.node_it]) = "radio")
            => rssi_resolver_count'[walk.sorted[walk.node_it]]
                 = rssi_resolver_count[walk.sorted[walk.node_it]] + 1]_vars

\* C28 happens: walks have cleaned the radio's properties and run its rssi
\* resolver again, and then a forward from or to the sentinel was tried.
C28_ForwardTriedAfterWalks ==
    /\ pc = "idle" /\ release_count = 0
    /\ op = "forward" /\ err = "type_error"
    /\ \E n \in Range(nodes) : NodeKind(n) = "radio" /\ rssi_resolver_count[n] > 3

\* C30: whenever no enqueue_action call is in progress (none is running its
\* loop and none waits for the mutex), whether the last call returned or
\* ended with an error, the action queue is empty and the action handling
\* flag is clear.
C30_IdleQueueEmptyFlagClear ==
    (pc = "idle" /\ action_mutex = NoLock)
        => (action_queue = << >> /\ ~action_handling_ongoing)

NextAction == Head(action_queue)
DeliveryEdge ==
    find_neighbour(edges, NextAction.src_node, NextAction.src_port.type,
                   NextAction.src_port.instance)

\* C31: when the loop of enqueue_action delivers an action posted on port p
\* across edge e, the port handed to the recipient is the recipient's own end
\* of e: the inverse of p's type, with index e.src_port when p is an
\* INPUT_EDGE (the recipient is the upstream node) and e.dst_port when p is
\* an OUTPUT_EDGE (the recipient is the downstream node).
C31_RecipientPortIsOwnEnd ==
    [][(DrainPops /\ drain'.pops = drain.pops + 1 /\ DeliveryEdge.status = "found")
        => /\ drain'.recipient = DeliveryEdge.node
           /\ drain'.recipient_port =
                 [type |-> invert_edge(NextAction.src_port.type),
                  instance |-> IF NextAction.src_port.type = "INPUT_EDGE"
                               THEN DeliveryEdge.edge.src_port
                               ELSE DeliveryEdge.edge.dst_port]]_vars

\* C32: a commit that ends with the topology error leaves the release
\* counter at the value it had before the call.
C32_FailedCommitKeepsCounter ==
    [][(pc = "idle" /\ op' = "commit" /\ err' = "topology")
        => release_count' = release_count]_vars

\* The nodes of the graph that hold a dirty property whose source is not
\* FRAMEWORK, among the properties P.
NodesWithDirtyProps(P) ==
    {n \in Range(nodes) : \E k \in DOMAIN P[n] : P[n][k].dirty /\ k[1] # "FRAMEWORK"}

\* C33: a call that enters the walk starts it on a node with a dirty property
\* of a source other than FRAMEWORK when there is one (on that node when it is
\* the only one), and on some node of the graph when there is none; several
\* such nodes do not stop the call, it enters the walk without an error; a
\* radio, whose rssi resolver depends on ALWAYS_DIRTY, is not taken for a
\* dirty node when its properties are clean.
C33_WalkStartsOnDirtyNode ==
    /\ [][(pc = "idle" /\ pc' = "resolve")
            => LET D == NodesWithDirtyProps(props')
               IN  /\ D # {} => walk'.initial_node \in D
                   /\ D = {} => walk'.initial_node \in Range(nodes)
                   /\ walk'.sorted[walk'.node_it] = walk'.initial_node]_vars
    /\ [][(/\ pc = "idle" /\ op' \in {"commit", "set_property"} /\ hist' # hist
            /\ release_count' = 0 /\ Cardinality(NodesWithDirtyProps(props')) > 1)
            => (pc' = "resolve" /\ err' = "none")]_vars

\* C33 happens: a walk has just started on the DDC, the only node with a
\* dirty property, in a graph whose first node is a radio.
C33_StartedOnTheOnlyDirtyNode ==
    /\ pc = "resolve" /\ walk.num_iterations = 0
    /\ \A n \in Range(nodes) : hist.visits[n] = 0
    /\ NodesWithDirtyProps(props) = {walk.initial_node}
    /\ NodeKind(nodes[1]) = "radio" /\ walk.initial_node # nodes[1]

\* The node the walk is on.
CurrentNode == walk.sorted[walk.node_it]

\* The values of the edge properties of node n have arrived at its
\* neighbours over the propagating edges.
ForwardedFrom(n) ==
    \A i \in 1..Len(edges) :
        LET e == edges[i]
        IN  e.property_propagation_active =>
              /\ e.src_blockid = n =>
                    \A k \in DOMAIN props[n] :
                        (k[1] = "OUTPUT_EDGE" /\ k[2] = e.src_port) =>
                            /\ <<"INPUT_EDGE", e.dst_port, k[3]>> \in DOMAIN props[e.dst_blockid]
                            /\ props[e.dst_blockid][<<"INPUT_EDGE", e.dst_port, k[3]>>].val
                                  = props[n][k].val
              /\ e.dst_blockid = n =>
                    \A k \in DOMAIN props[n] :
                        (k[1] = "INPUT_EDGE" /\ k[2] = e.dst_port) =>
                            /\ <<"OUTPUT_EDGE", e.src_port, k[3]>> \in DOMAIN props[e.src_blockid]
                            /\ props[e.src_blockid][<<"OUTPUT_EDGE", e.src_port, k[3]>>].val
                                  = props[n][k].val

\* C34: a node visit is local resolution, then forwarding, then cleaning, on
\* one node: resolution clears no dirty flag, after the forwarding the values
\* of the node's edge properties are at its neighbours while the flags set by
\* the resolvers are still set, and cleaning then clears every flag of the
\* node; the order walked is a topological order of the propagating edges
\* holding every node, followed from the start node to the end, then back to
\* the front, and so on.
C34_VisitOrder ==
    /\ [](pc \in {"resolve", "forward", "clean"} =>
            /\ Range(walk.sorted) = Range(nodes) /\ Len(walk.sorted) = Len(nodes)
            /\ \A i \in 1..Len(edges) :
                  edges[i].property_propagation_active =>
                      IndexOf(walk.sorted, edges[i].src_blockid)
                          < IndexOf(walk.sorted, edges[i].dst_blockid))
    /\ [](pc = "clean" => ForwardedFrom(CurrentNode))
    /\ [][pc = "resolve" =>
            /\ pc' \in {"forward", "idle"}
            /\ pc' = "forward" => walk' = walk
            /\ \A k \in DOMAIN props[CurrentNode] :
                  props[CurrentNode][k].dirty => props'[CurrentNode][k].dirty]_vars
    /\ [][pc = "forward" =>
            /\ pc' = "clean" /\ walk' = walk
            /\ props'[CurrentNode] = props[CurrentNode]]_vars
    /\ [][pc = "clean" =>
            /\ pc' \in {"resolve", "idle"}
            /\ \A k \in DOMAIN props'[CurrentNode] : ~props'[CurrentNode][k].dirty
            /\ pc' = "resolve" =>
                  /\ walk'.sorted = walk.sorted
                  /\ walk'.node_it =
                        IF Len(walk.sorted) = 1 THEN 1
                        ELSE IF ~walk.forward_dir THEN walk.node_it - 1
                        ELSE IF walk.node_it < Len(walk.sorted) THEN walk.node_it + 1
                        ELSE walk.node_it - 1]_vars

\* C34 happens: on a chain of three nodes the walk has reached the end and is
\* on its way back, about to clean the middle node after a resolver changed
\* one of its edge properties and the value was forwarded.
C34_MiddleNodeOnTheWayBack ==
    /\ pc = "clean" /\ Len(walk.sorted) = 3 /\ walk.node_it = 2 /\ ~walk.forward_dir
    /\ \E k \in DOMAIN props[CurrentNode] :
          k[1] \in {"INPUT_EDGE", "OUTPUT_EDGE"} /\ props[CurrentNode][k].dirty

\* The resolvers of node n, by index, with an input property that is dirty
\* among the properties P (ALWAYS_DIRTY is dirty).
ResolversWithDirtyInput(n, P) ==
    {i \in 1..Len(Resolvers(n, dyn_resolvers)) :
        \E k \in Resolvers(n, dyn_resolvers)[i].inputs :
            k = ALWAYS_DIRTY \/ (k \in DOMAIN P /\ P[k].dirty)}

\* C35: local resolution of a node runs exactly the resolvers that have a
\* dirty property among their inputs when it starts, each once, in the order
\* of their registration, and clears no dirty flag; a property goes from
\* dirty to clean only in the clean step of the visit to its node, which
\* leaves no property of the node dirty.
C35_ResolversRunOnDirtyInputs ==
    /\ [][(pc = "resolve" /\ pc' = "forward") =>
            /\ Range(hist'.ran) = ResolversWithDirtyInput(CurrentNode, props[CurrentNode])
            /\ \A i \in 1..Len(hist'.ran) : \A j \in 1..Len(hist'.ran) :
                  i < j => hist'.ran[i] < hist'.ran[j]
            /\ \A k \in DOMAIN props[CurrentNode] :
                  props[CurrentNode][k].dirty => props'[CurrentNode][k].dirty]_vars
    /\ [][\A n \in Range(nodes) : \A k \in DOMAIN props[n] :
            (props[n][k].dirty /\ ~props'[n][k].dirty)
                => (pc = "clean" /\ n = CurrentNode)]_vars
    /\ [][pc = "clean" =>
            \A k \in DOMAIN props'[CurrentNode] : ~props'[CurrentNode][k].dirty]_vars

\* C35 happens: a DDC with a dirty decimation and a clean input rate has run
\* its first resolver only, and the output rate that resolver changed is
\* dirty, though the third resolver, which has it as input, did not run.
C35_OnlyTheDecimResolverRan ==
    /\ pc = "forward" /\ NodeKind(CurrentNode) = "ddc"
    /\ hist.ran = <<1>>
    /\ props[CurrentNode][DECIM].dirty /\ props[CurrentNode][SAMP_RATE_OUT].dirty
    /\ ~props[CurrentNode][SAMP_RATE_IN].dirty

ForwardedKeys(n) ==
    {k \in DOMAIN props[n] :
        /\ k[1] \in {"INPUT_EDGE", "OUTPUT_EDGE"}
        /\ find_neighbour(edges, n, k[1], k[2]).status = "found"
        /\ find_neighbour(edges, n, k[1], k[2]).edge.property_propagation_active}
ForwardTarget(n, k) ==
    LET nb == find_neighbour(edges, n, k[1], k[2])
    IN  [node |-> nb.node,
         key  |-> <<invert_edge(k[1]),
                    IF k[1] = "INPUT_EDGE" THEN nb.edge.src_port ELSE nb.edge.dst_port,
                    k[3]>>]

C38_UnsharedBackEdgePropertySkipped ==
    (/\ ResolveEnded
     /\ BackEdges(edges) # <<>>
     /\ find_dirty_nodes(nodes, props) = <<>>
     /\ EdgesAgree(BackEdges(edges), props))
        => err = "none"

\* The entries the delivery of the action at the head of the queue appends.
PostedByRecipient == SubSeq(action_queue', Len(action_queue), Len(action_queue'))

UnknownTargets ==
    {t \in {ForwardTarget(CurrentNode, k) : k \in ForwardedKeys(CurrentNode)} :
        t.key \notin DOMAIN props[t.node]}
OppositeOf(key) == <<invert_edge(key[1]), key[2], key[3]>>
CopyResolver(key) ==
    [inputs |-> {key}, outputs |-> {OppositeOf(key)}, fn |-> "forward",
     src |-> key, dst |-> OppositeOf(key)]

\* What a forwarding step creates on the neighbours: each property a
\* neighbour lacks; under ONE_TO_ONE, when the neighbour has the opposite port
\* with that index, also the property on that port and a resolver copying the
\* new property to it; nothing else and no other resolver.
CreatedByPolicy ==
    [][pc = "forward" =>
            /\ \A t \in UnknownTargets :
                  /\ t.key \in DOMAIN props'[t.node]
                  /\ IF PropFwdPolicy(t.node) = "ONE_TO_ONE"
                        /\ has_port(t.node, OppositeOf(t.key)[1], OppositeOf(t.key)[2])
                     THEN /\ OppositeOf(t.key) \in DOMAIN props'[t.node]
                          /\ \E i \in 1..Len(dyn_resolvers'[t.node]) :
                                dyn_resolvers'[t.node][i] = CopyResolver(t.key)
                     ELSE \A i \in 1..Len(dyn_resolvers'[t.node]) :
                                dyn_resolvers'[t.node][i] # CopyResolver(t.key)
            /\ \A n \in Range(nodes) :
                  /\ (DOMAIN props'[n]) \ (DOMAIN props[n]) \subseteq
                        {t.key : t \in {u \in UnknownTargets : u.node = n}}
                        \cup {OppositeOf(t.key) : t \in {u \in UnknownTargets :
                                   u.node = n /\ PropFwdPolicy(n) = "ONE_TO_ONE"
                                   /\ has_port(n, OppositeOf(u.key)[1], OppositeOf(u.key)[2])}}
                  /\ Len(dyn_resolvers'[n]) - Len(dyn_resolvers[n]) =
                        Cardinality({u \in UnknownTargets :
                                   u.node = n /\ PropFwdPolicy(n) = "ONE_TO_ONE"
                                   /\ has_port(n, OppositeOf(u.key)[1], OppositeOf(u.key)[2])})]_vars

\* Each property a copying resolver writes equals the property it copies.
CreatedPropertiesFollow ==
    \A n \in Range(nodes) : \A i \in 1..Len(dyn_resolvers[n]) :
        props[n][dyn_resolvers[n][i].dst].val = props[n][dyn_resolvers[n][i].src].val

\* C40: forwarding to a neighbour that lacks the property creates it and
\* then follows the neighbour's forwarding policy: DROP, and ONE_TO_ONE on a
\* node without the opposite port, create nothing further; ONE_TO_ONE creates
\* the counterpart on the opposite port with the same index and installs a
\* resolver copying the forwarded value to it.  Whenever
\* resolve_all_properties has returned without error, every property so
\* created equals the property it is copied from.
C40_PolicyForUnknownProperties ==
    /\ CreatedByPolicy
    /\ [](ResolveEnded /\ err = "none" => CreatedPropertiesFollow)
====
